---- MODULE Spec2Model ----
(***************************************************************************)
(* Annotation Retrieval & Consensus Engine of maksym33/hackathon2024.       *)
(*                                                                         *)
(* Texts are sequences of one-character strings, so that the string        *)
(* operations of the source (strip, replace, slicing, regular expressions) *)
(* are computed and not assumed.  The Python value None is the one-element  *)
(* sequence NoneVal, whose element is no character.                         *)
(***************************************************************************)
EXTENDS Integers, Sequences, FiniteSets, TLC

VARIABLES
    \* ---- CompletionCache and the record store it writes to
    channel,        \* CompletionCache.channel (the llm id of the cache)
    file,           \* rows of 'channel.completions.csv' (header excluded)
    db,             \* record store: completion key -> Completion record
    preloaded,      \* the store as it was when the construction finished
    prevOp,         \* the cache call made before the latest one
    lastOp,         \* arguments and outcome of the latest add / get call
    \* ---- AnnotatingRetriever
    max_retries,    \* AnnotatingRetriever.max_retries
    call_count,     \* AnnotatingRetriever.call_count
    ctxTrial,       \* trial id of the context the retriever is called in
    nCalls,         \* history: retrieve calls made since the last init
    call,           \* the running (or last) retrieve call: arguments and position
    att,            \* what the latest attempt of the call saw and did
    outcome,        \* how the call has ended, if it has
    \* ---- several workers calling retrieve on one AnnotatingRetriever
    workers,        \* per worker: position in retrieve and the call_count it read
    \* ---- StringUtil.digest and the keys built with it, applied to chosen inputs
    dg,
    \* ---- manage_results applied to a chosen list of result maps
    agg,
    \* ---- one function or method applied to a chosen input
    app,
    \* ---- workers running score_trial_output on one stored output
    scoring

cacheVars == <<channel, file, db, preloaded, prevOp, lastOp>>
retrVars  == <<max_retries, call_count, ctxTrial, nCalls, call, att, outcome>>
pureVars  == <<workers, dg, agg, app, scoring>>
vars      == <<channel, file, db, preloaded, prevOp, lastOp,
               max_retries, call_count, ctxTrial, nCalls, call, att, outcome,
               workers, dg, agg, app, scoring>>

(***************************************************************************)
(* Python values and string primitives                                     *)
(***************************************************************************)
NoneVal == <<"<None>">>

Min(a, b) == IF a < b THEN a ELSE b

\* str.strip() and the regular expression class \s
Whitespace == {" ", "\t", "\n", "\r", "\f"}

RECURSIVE LStrip(_)
LStrip(s) == IF s # <<>> /\ Head(s) \in Whitespace THEN LStrip(Tail(s)) ELSE s

RECURSIVE RStrip(_)
RStrip(s) ==
    IF s # <<>> /\ s[Len(s)] \in Whitespace THEN RStrip(SubSeq(s, 1, Len(s) - 1)) ELSE s

Strip(s) == RStrip(LStrip(s))

\* text[:n]
Prefix(s, n) == SubSeq(s, 1, Min(n, Len(s)))

\* str.replace(ch, "")
RemoveChar(s, ch) == SelectSeq(s, LAMBDA c : c # ch)

Contains(s, ch) == \E i \in 1..Len(s) : s[i] = ch

\* str.lower() on one character
Lower(ch) ==
    CASE ch = "A" -> "a" [] ch = "B" -> "b" [] ch = "C" -> "c" [] ch = "D" -> "d"
      [] ch = "E" -> "e" [] ch = "F" -> "f" [] ch = "G" -> "g" [] ch = "H" -> "h"
      [] ch = "I" -> "i" [] ch = "J" -> "j" [] ch = "K" -> "k" [] ch = "L" -> "l"
      [] ch = "M" -> "m" [] ch = "N" -> "n" [] ch = "O" -> "o" [] ch = "P" -> "p"
      [] ch = "Q" -> "q" [] ch = "R" -> "r" [] ch = "S" -> "s" [] ch = "T" -> "t"
      [] ch = "U" -> "u" [] ch = "V" -> "v" [] ch = "W" -> "w" [] ch = "X" -> "x"
      [] ch = "Y" -> "y" [] ch = "Z" -> "z"
      [] OTHER -> ch

LowerStr(s) == [i \in 1..Len(s) |-> Lower(s[i])]

\* The characters of a text written out as one string
RECURSIVE Str(_)
Str(s) ==
    IF s = <<>> THEN ""
    ELSE IF Len(s) = 1 THEN s[1]
    ELSE Str(SubSeq(s, 1, Len(s) \div 2)) \o Str(SubSeq(s, Len(s) \div 2 + 1, Len(s)))

\* sep.join(parts)
RECURSIVE Join(_, _)
Join(sep, parts) ==
    IF parts = <<>> THEN <<>>
    ELSE IF Len(parts) = 1 THEN parts[1]
    ELSE parts[1] \o sep \o Join(sep, Tail(parts))

\* tuple(x for x in params if x is not None)
RECURSIVE PruneNone(_)
PruneNone(params) ==
    IF params = <<>> THEN <<>>
    ELSE IF Head(params) = NoneVal THEN PruneNone(Tail(params))
    ELSE <<Head(params)>> \o PruneNone(Tail(params))

\* str(i) for a retry index
Digit(i) ==
    CASE i = 0 -> "0" [] i = 1 -> "1" [] i = 2 -> "2" [] i = 3 -> "3" [] i = 4 -> "4"
      [] i = 5 -> "5" [] i = 6 -> "6" [] i = 7 -> "7" [] i = 8 -> "8" [] OTHER -> "9"

(***************************************************************************)
(* StringUtil                                                              *)
(***************************************************************************)
is_empty(value) == value = NoneVal \/ value = <<>>

is_not_empty(value) == value # NoneVal /\ value # <<>>

\* _WHITESPACE_RE.sub(" ", s): every run of whitespace becomes one space
WhitespaceSub(s) ==
    LET marked == [i \in 1..Len(s) |->
                      IF s[i] \notin Whitespace THEN s[i]
                      ELSE IF i > 1 /\ s[i - 1] \in Whitespace THEN "<in run>"
                      ELSE " "]
    IN  SelectSeq(marked, LAMBDA c : c # "<in run>")

\* The lower-cased text without " ", "\n" and "\r": what _md5 hashes
Md5Input(value) == RemoveChar(RemoveChar(RemoveChar(LowerStr(value), " "), "\n"), "\r")

\* md5_hex: the 128-bit hash, modelled as a collision-free token of what is hashed
md5_hex(value) == "md5<" \o Str(Md5Input(value)) \o ">"

DigestMaxLen == 80
DigestWindow == 160

\* A table of delimiters with the backslash alone
BackslashOnly == {"\\"}

\* _DISALLOWED_DELIMITERS
DisallowedDelimiters == {"\\", ";"}

\* A call's result: raised = "" when it returned value
Returned(v) == [raised |-> "", value |-> v]
Raised(e)   == [raised |-> e, value |-> NoneVal]

\* digest, line 61: the text is shortened when it is multiline or too long
IsTruncated(text) == Contains(text, "\n") \/ Len(text) > DigestMaxLen

\* The window of the text cut at the maximal length, whitespace left as it is
ShortenedUncollapsed(text) == Prefix(text, DigestMaxLen)

\* digest, lines 61-69: the shortened form of the text
Shortened(text) ==
    IF IsTruncated(text)
    THEN Strip(Prefix(Strip(WhitespaceSub(Strip(Prefix(text, DigestWindow)))),
                      DigestMaxLen))
    ELSE text

digest(text, text_params, hash_params) ==
    LET is_truncated == IsTruncated(text)
        short == Shortened(text)
        tp == PruneNone(text_params)
        text_params_str == Join(<<",", " ">>, tp)
        hash_params_str == Join(<<>>, PruneNone(hash_params))
        result ==
            IF is_truncated \/ hash_params_str # <<>>
            THEN LET md5_hash == <<md5_hex(text \o hash_params_str)>>
                 IN  IF text_params_str # <<>>
                     THEN short \o <<" ", "(">> \o text_params_str \o <<",", " ">>
                            \o md5_hash \o <<")">>
                     ELSE short \o <<" ", "(">> \o md5_hash \o <<")">>
            ELSE IF text_params_str # <<>>
                 THEN short \o <<" ", "(">> \o text_params_str \o <<")">>
                 ELSE short
    IN  IF \E d \in DisallowedDelimiters : Contains(result, d)
        THEN Raised("UserError: A digest contains disallowed delimiters")
        ELSE Returned(result)

(***************************************************************************)
(* Completion and CompletionUtil                                           *)
(***************************************************************************)
\* Completion.get_key: the key is built from the query and the llm id alone
get_key(llm_id, query, trial) ==
    IF is_empty(query)
    THEN Raised("UserError: Empty 'query' field")
    ELSE digest(query, <<llm_id>>, <<>>)

\* str.replace(pat, rep): the occurrences of pat, left to right, not overlapping
RECURSIVE ReplaceFrom(_, _, _, _)
ReplaceFrom(s, pat, rep, i) ==
    LET starts == {j \in i..(Len(s) - Len(pat) + 1) : SubSeq(s, j, j + Len(pat) - 1) = pat}
    IN  IF starts = {} THEN SubSeq(s, i, Len(s))
        ELSE LET j == CHOOSE x \in starts : \A y \in starts : x <= y
             IN  SubSeq(s, i, j - 1) \o rep \o ReplaceFrom(s, pat, rep, j + Len(pat))

Replace(s, pat, rep) == ReplaceFrom(s, pat, rep, 1)

\* CompletionUtil.to_python_eol on one string
to_python_eol(s) == Replace(Replace(s, <<"\r", "\r", "\n">>, <<"\n">>), <<"\r", "\n">>, <<"\n">>)

\* CompletionUtil.format_query under a context whose trial id is trial
format_query(query, trial) ==
    LET result == Strip(query)
        withId == IF trial # NoneVal
                  THEN <<"T", "r", "i", "a", "l", "I", "D", ":", " ">> \o trial
                         \o <<"\n">> \o result
                  ELSE result
    IN  to_python_eol(withId)

\* CompletionUtil.format_completion
format_completion(value) == to_python_eol(Strip(value))

\* The methods class CompletionUtil defines
CompletionUtilMethods ==
    {"format_query", "format_completion", "to_python_eol", "to_os_eol"}

(***************************************************************************)
(* Record store (Context.save_one / save_many / load_one): records are     *)
(* addressed by their key, a later save under the same key replaces the    *)
(* record                                                                  *)
(***************************************************************************)
Put(store, key, rec) == [k \in DOMAIN store \cup {key} |-> IF k = key THEN rec ELSE store[k]]

save_one(store, rec) ==
    LET k == get_key(rec.llm, rec.query, rec.trial)
    IN  IF k.raised # "" THEN store ELSE Put(store, k.value, rec)

RECURSIVE save_many(_, _)
save_many(store, recs) ==
    IF recs = <<>> THEN store ELSE save_many(save_one(store, Head(recs)), Tail(recs))

\* load_one(..., is_record_optional=True): <<record>> when found, <<>> when not
load_one(store, key) == IF key \in DOMAIN store THEN <<store[key]>> ELSE <<>>

EmptyStore == [k \in {} |-> NoneVal]

(***************************************************************************)
(* CompletionCache                                                         *)
(***************************************************************************)
CompletionRecord(llm, query, completion, trial, timestamp) ==
    [llm |-> llm, query |-> query, completion |-> completion, trial |-> trial,
     timestamp |-> timestamp]

\* The fields class ConvinceSettings declares; the class has slots, so reading
\* any other attribute of its instance raises AttributeError
ConvinceSettingsFields == {"locale", "_language", "_country"}

SupportedExtensions == {<<"c", "s", "v">>}

\* load_completion_dict, first call on the instance.  The condition of line 186
\* reads ConvinceSettings.instance().load_completions_from_csv before it looks
\* for the file; were the attribute there (and true), every row of the file
\* would give one record, saved with save_many.
load_completion_dict(store, llm, rows) ==
    IF "load_completions_from_csv" \notin ConvinceSettingsFields
    THEN [raised |-> "AttributeError: load_completions_from_csv", db |-> store]
    ELSE [raised |-> "",
          db |-> save_many(store,
                           [i \in 1..Len(rows) |->
                               CompletionRecord(llm, to_python_eol(rows[i][2]),
                                                to_python_eol(rows[i][3]),
                                                NoneVal, to_python_eol(rows[i][1]))])]

\* str.removeprefix(".")
RemoveDotPrefix(ext) == IF ext # <<>> /\ Head(ext) = "." THEN Tail(ext) ELSE ext

\* CompletionCache.__post_init__: the extension is checked (lines 85-92), then
\* the file of the channel is loaded (line 102)
post_init(store, llm, ext, rows) ==
    IF ext # NoneVal /\ RemoveDotPrefix(ext) \notin SupportedExtensions
    THEN [raised |-> "RuntimeError: Extension is not supported", db |-> store]
    ELSE load_completion_dict(store, llm, rows)

\* An add whose first statement succeeds and whose record takes the query it
\* was given: the record is saved and the row appended
add_saving(store, rows, llm, request_id, query, completion, trial_id) ==
    LET c   == format_completion(completion)
        rec == CompletionRecord(llm, query, c, trial_id, request_id)
    IN  IF get_key(llm, query, trial_id).raised # ""
        THEN [raised |-> get_key(llm, query, trial_id).raised, db |-> store, file |-> rows]
        ELSE [raised |-> "", db |-> save_one(store, rec),
              file |-> Append(rows, <<request_id, query, c>>)]

\* CompletionCache.add.  Its first statement calls CompletionUtil.normalize_value,
\* which CompletionUtil does not define (AttributeError); the record it would build
\* next reads query_with_trial_id, a name bound nowhere (NameError).  Either way
\* the call raises before save_one and before the file is opened.
add(store, rows, llm, request_id, query, completion, trial_id) ==
    IF "normalize_value" \notin CompletionUtilMethods
    THEN [raised |-> "AttributeError: normalize_value", db |-> store, file |-> rows]
    ELSE [raised |-> "NameError: query_with_trial_id", db |-> store, file |-> rows]

\* CompletionCache.get: the key of (llm, query, trial), then a point lookup
get(store, llm, query, trial_id) ==
    LET k == get_key(llm, query, trial_id)
    IN  IF k.raised # ""
        THEN [raised |-> k.raised, key |-> NoneVal, result |-> NoneVal]
        ELSE LET rec == load_one(store, k.value)
             IN  [raised |-> "", key |-> k.value,
                  result |-> IF rec # <<>> THEN rec[1].completion ELSE NoneVal]

(***************************************************************************)
(* AnnotatingRetriever: the trial id of one retry                          *)
(***************************************************************************)
\* retrieve, lines 121-129: the trial id the retry's context is entered with
RetryTrialId(ctx_trial, retries, retry_index) ==
    IF retries > 1
    THEN IF ctx_trial # NoneVal
         THEN ctx_trial \o <<"\\">> \o <<Digit(retry_index)>>
         ELSE <<Digit(retry_index)>>
    ELSE ctx_trial

(***************************************************************************)
(* The cache as a state machine                                            *)
(***************************************************************************)
MaxFileRows == 1
MaxRetryIds == 2

Channels    == {<<"L">>}
Queries     == {<<"q">>, <<"q", "\n", "r">>, <<"q", ";">>}
Completions == {<<"c">>, <<" ", "d">>}
RequestIds  == {<<"7">>}
OuterTrials == {NoneVal, <<"T">>}
TrialIds    == {NoneVal} \cup
               {RetryTrialId(t, 2, i) : t \in OuterTrials, i \in 0..(MaxRetryIds - 1)}

\* Rows a former run can have left in the file
FileRows  == {<<<<"1">>, q, c>> : q \in {x \in Queries : ~is_empty(x) /\ ~Contains(x, ";")},
                                  c \in {format_completion(x) : x \in Completions}}
FileSeqs  == UNION {[1..n -> FileRows] : n \in 0..MaxFileRows}

NoOp == [op |-> "none"]

RetrIdle ==
    /\ max_retries = 1
    /\ call_count = 0
    /\ ctxTrial = NoneVal
    /\ nCalls = 0
    /\ call = [pc |-> "idle"]
    /\ att = [index |-> -1]
    /\ outcome = [kind |-> "none"]

\* No worker, no digest computed, nothing aggregated
WorkersIdle == workers = <<>>
DigestIdle  == dg = [pc |-> "idle"]
AggIdle     == agg = [pc |-> "idle"]
AppIdle     == app = [pc |-> "idle"]
ScoringIdle == scoring = [status |-> "none"]

Extensions == {NoneVal, <<"c", "s", "v">>, <<".", "c", "s", "v">>, <<"t", "x", "t">>}

\* The process starts: the completions file is as a former run left it, the
\* record store is empty, no cache is constructed
InitCache ==
    /\ channel \in Channels
    /\ file \in FileSeqs
    /\ db = EmptyStore
    /\ preloaded = EmptyStore
    /\ prevOp = NoOp
    /\ lastOp = NoOp
    /\ RetrIdle
    /\ WorkersIdle /\ DigestIdle /\ AggIdle /\ AppIdle /\ ScoringIdle

\* CompletionCache(channel=channel, ext=ext): the constructor runs __post_init__
CacheConstruct(ext) ==
    LET r == post_init(db, channel, ext, file)
    IN  /\ db' = r.db
        /\ preloaded' = r.db
        /\ prevOp' = lastOp
        /\ lastOp' = [op |-> "construct", ext |-> ext, raised |-> r.raised]
        /\ UNCHANGED <<channel, file>>
        /\ UNCHANGED retrVars
        /\ UNCHANGED pureVars

\* Completion(llm=LlmKey(llm_id=channel), query=query, trial=...).get_key(), the
\* key computation CompletionCache.get starts with (lines 169-173); it needs no
\* cache
CompletionGetKey(query, trial_id) ==
    LET k == get_key(channel, query, trial_id)
    IN  /\ prevOp' = lastOp
        /\ lastOp' = [op |-> "get_key", query |-> query, trial |-> trial_id,
                      raised |-> k.raised, key |-> k.value]
        /\ UNCHANGED <<channel, file, db, preloaded>>
        /\ UNCHANGED retrVars
        /\ UNCHANGED pureVars

NextCache ==
    \/ \E ext \in Extensions : CacheConstruct(ext)
    \/ \E q \in Queries, t \in TrialIds : CompletionGetKey(q, t)

SpecCache == InitCache /\ [][NextCache]_vars

(***************************************************************************)
(* Claims about the cache                                                  *)
(***************************************************************************)
\* The latest call was a construction with an extension the cache supports
Constructing ==
    /\ lastOp.op = "construct"
    /\ (lastOp.ext = NoneVal \/ RemoveDotPrefix(lastOp.ext) \in SupportedExtensions)

\* C1: within one run, a completion written by add is never returned by a later
\* get: whatever add is called with, a get of the same query and trial after it
\* returns a completion only for an entry that was loaded at construction, and
\* then the completion of that entry.
C1_NoReuseWithinRun ==
    \A rid \in RequestIds, q \in Queries, c \in Completions, t \in TrialIds :
        LET a == add(db, file, channel, rid, q, c, t)
            g == get(a.db, channel, q, t)
        IN  g.result # NoneVal =>
                /\ g.key \in DOMAIN preloaded
                /\ g.result = preloaded[g.key].completion

\* C1, its case: the cache of a channel whose file holds an entry has been
\* constructed, the key of that entry's query has been computed as get does,
\* and an add for the query followed by a get of it returns no completion
C1_Witness ==
    /\ prevOp.op = "construct"
    /\ (prevOp.ext = NoneVal \/ RemoveDotPrefix(prevOp.ext) \in SupportedExtensions)
    /\ lastOp.op = "get_key"
    /\ lastOp.raised = ""
    /\ file # <<>>
    /\ to_python_eol(file[1][2]) = lastOp.query
    /\ \E rid \in RequestIds, c \in Completions :
          LET a == add(db, file, channel, rid, lastOp.query, c, lastOp.trial)
              g == get(a.db, channel, lastOp.query, lastOp.trial)
          IN  /\ g.raised = ""
              /\ g.key = lastOp.key
              /\ g.result = NoneVal

\* C2: cache round trip: on the constructed cache add(request_id, q, c,
\* trial_id = t) followed by get(q, trial_id = t) returns c, and get of a key
\* that was never written returns None without raising.
C2_RoundTrip ==
    Constructing =>
        /\ lastOp.raised = ""
        /\ \A rid \in RequestIds, q \in Queries, c \in Completions, t \in TrialIds :
              LET a == add(db, file, channel, rid, q, c, t)
                  g == get(a.db, channel, q, t)
                  n == get(db, channel, q, t)
              IN  /\ g.raised = ""
                  /\ g.result = c
                  /\ n.key \notin DOMAIN db => (n.raised = "" /\ n.result = NoneVal)

\* C3: trial isolation: for the same query and the same llm, the keys computed
\* for two different trial ids (those of retry i and retry i+1 among them)
\* differ.
C3_TrialIsolation ==
    (/\ prevOp.op = "get_key"
     /\ lastOp.op = "get_key"
     /\ prevOp.query = lastOp.query
     /\ prevOp.trial # lastOp.trial
     /\ prevOp.raised = ""
     /\ lastOp.raised = "")
        => prevOp.key # lastOp.key

\* C12: a completion record is immutable after creation: an add, with the same
\* or with another key, leaves the query, the completion and the timestamp
\* stored under every key that has a record as they are, and an add for a
\* combination whose key has no record creates the record of that key.
C12_RecordImmutable ==
    (lastOp.op = "get_key" /\ lastOp.raised = "") =>
        \A rid \in RequestIds, c \in Completions :
            LET a == add(db, file, channel, rid, lastOp.query, c, lastOp.trial)
            IN  /\ \A k \in DOMAIN db :
                      /\ k \in DOMAIN a.db
                      /\ a.db[k].query = db[k].query
                      /\ a.db[k].completion = db[k].completion
                      /\ a.db[k].timestamp = db[k].timestamp
                /\ lastOp.key \notin DOMAIN db => lastOp.key \in DOMAIN a.db

\* C33: the side log is append-only under add: every add on the constructed
\* cache appends exactly one row, which starts with the request id of the call,
\* at the end of the file, and leaves the rows already in the file as they are.
C33_AppendOnly ==
    Constructing =>
        /\ lastOp.raised = ""
        /\ \A rid \in RequestIds, q \in Queries, c \in Completions, t \in TrialIds :
              LET a == add(db, file, channel, rid, q, c, t)
              IN  /\ Len(a.file) = Len(file) + 1
                  /\ SubSeq(a.file, 1, Len(file)) = file
                  /\ a.file[Len(a.file)][1] = rid

(***************************************************************************)
(* BoolUtil                                                                *)
(***************************************************************************)
parse_required_bool(field_value) ==
    IF field_value = NoneVal \/ field_value = <<>>
    THEN [raised |-> "UserError: The value is empty", value |-> FALSE]
    ELSE IF field_value = <<"Y">> THEN [raised |-> "", value |-> TRUE]
    ELSE IF field_value = <<"N">> THEN [raised |-> "", value |-> FALSE]
    ELSE [raised |-> "UserError: The value must be Y, N or an empty string", value |-> FALSE]

(***************************************************************************)
(* AnnotatingRetriever                                                     *)
(***************************************************************************)
MAX_CALLS == 50

\* calls_remaining
calls_remaining(count) == MAX_CALLS - count

\* The backtick character (a string of the module cannot hold it)
Backtick == "<backtick>"

\* _deannotate
_deannotate(text) ==
    Strip(RemoveChar(RemoveChar(Strip(RemoveChar(text, Backtick)), "{"), "}"))

\* Index of the first ch in s at or after position i, 0 when there is none
RECURSIVE IndexFrom(_, _, _)
IndexFrom(s, ch, i) ==
    IF i > Len(s) THEN 0 ELSE IF s[i] = ch THEN i ELSE IndexFrom(s, ch, i + 1)

\* re.findall(_BRACES_RE, text) with _BRACES_RE = \{(.*?)\} : scanning from the
\* left, an opening brace matches up to the first closing brace after it, unless a
\* line break (which . does not match) comes first; the search resumes after the
\* closing brace.  The result lists the texts between the braces.
RECURSIVE FindAllBraces(_, _)
FindAllBraces(s, i) ==
    LET open  == IndexFrom(s, "{", i)
        close == IF open = 0 THEN 0 ELSE IndexFrom(s, "}", open + 1)
        eol   == IF open = 0 THEN 0 ELSE IndexFrom(s, "\n", open + 1)
    IN  IF open = 0 \/ close = 0 THEN <<>>
        ELSE IF eol # 0 /\ eol < close THEN FindAllBraces(s, open + 1)
        ELSE <<SubSeq(s, open + 1, close - 1)>> \o FindAllBraces(s, close + 1)

findall_braces(text) == FindAllBraces(text, 1)

\* line 205: some match holds a brace
HasNested(matches) ==
    \E k \in 1..Len(matches) : Contains(matches[k], "{") \/ Contains(matches[k], "}")

\* lines 171-178: success is N
OnNotFoundAlwaysNext(is_required) == "next"
OnNotFound(is_required) == IF is_required THEN "next" ELSE "return_none"

\* lines 183-195: the de-annotated text differs from the input text
OnMismatchRaising(is_last_trial) == IF ~is_last_trial THEN "next" ELSE "raise"
OnMismatch(is_last_trial) == IF ~is_last_trial THEN "next" ELSE "pass"

\* lines 196-200: success is Y and the annotated text is empty
OnEmptyAnnotatedAbsent == "return_none"
OnEmptyAnnotated == "raise"

\* lines 204-212: a match holds a brace; the continue of line 207 is the continue of
\* the loop over the matches, so the attempt goes on to line 216
OnNestedTolerant(is_last_trial) == "pass"
OnNested(is_last_trial) == IF ~is_last_trial THEN "pass" ELSE "raise"

\* lines 222-236: an exception raised inside the try block
ExceptHandler(is_last_trial) == IF is_last_trial THEN "raise" ELSE "next"

\* line 150: the completion starts with six copies of its first character and
\* ends with six copies of its last one
IsWrapped(completion) ==
    /\ Len(completion) >= 6
    /\ \A i \in 1..6 : completion[i] = completion[1]
    /\ \A i \in (Len(completion) - 5)..Len(completion) :
            completion[i] = completion[Len(completion)]

\* lines 150-152: completion[3:-3] for a wrapped completion
Unwrap(completion) ==
    IF IsWrapped(completion) THEN SubSeq(completion, 4, Len(completion) - 3)
    ELSE completion

\* A call of context.save_one(retrieval), retrieval being the record created for
\* the retry on line 136 with the trial of the retry: the line of the call, the
\* success flag of the record and the LLM response quoted in its justification,
\* if any
Save(line, success, response) == [line |-> line, success |-> success, response |-> response]

\* lines 161-167 with the save of line 166 left out
NoJsonUnsaved(completion) == <<>>

\* lines 161-167: what is saved before UserError is raised
NoJsonSaves(completion) == <<Save(166, <<"N">>, Unwrap(completion))>>

\* What one pass through the loop body does with the answer of the LLM.
\* step: "return_value" (line 220), "return_none" (line 178), "raise" (line 228),
\*       "next" (a continue, or the except branch of a retry that is not the last).
AttemptResult(step, cause, value) == [step |-> step, cause |-> cause, value |-> value]

Attempt(input_text, is_required, is_last_trial, resp) ==
    LET text    == Strip(input_text)
        caught(cause) == AttemptResult(ExceptHandler(is_last_trial), cause, NoneVal)
        success == parse_required_bool(resp.success)
        matches == findall_braces(resp.annotated_text)
        output  == Join(<<" ">>, matches)
        extract ==
            IF HasNested(matches) /\ OnNested(is_last_trial) = "raise"
            THEN caught("nested")
            ELSE AttemptResult("return_value", "ok", output)
    IN  IF resp.kind = "llm_error" THEN caught("llm_error")
        ELSE IF resp.kind = "empty" THEN caught("index_error")
        ELSE IF resp.kind = "no_json" THEN caught("no_json")
        ELSE IF success.raised # "" THEN caught("bad_success")
        ELSE IF ~success.value
             THEN AttemptResult(OnNotFound(is_required), "not_found", NoneVal)
        ELSE IF is_not_empty(resp.annotated_text)
             THEN IF _deannotate(resp.annotated_text) # text
                  THEN CASE OnMismatch(is_last_trial) = "next" ->
                                AttemptResult("next", "mismatch", NoneVal)
                         [] OnMismatch(is_last_trial) = "raise" -> caught("mismatch")
                         [] OTHER -> extract
                  ELSE extract
        ELSE IF OnEmptyAnnotated = "raise" THEN caught("empty_annotated")
             ELSE AttemptResult(OnEmptyAnnotated, "empty_annotated", NoneVal)

\* The save_one calls of one pass through the loop body, in order: line 160 or
\* 166 once the completion is parsed, line 217 before a value is returned, line
\* 227 when the last retry has raised
AttemptSaves(resp, step) ==
    LET on_error(response) ==
            IF step = "raise" THEN <<Save(227, <<"N">>, response)>> ELSE <<>>
    IN  IF resp.kind \in {"llm_error", "empty"} THEN on_error(NoneVal)
        ELSE IF resp.kind = "no_json"
             THEN NoJsonSaves(resp.completion) \o on_error(Unwrap(resp.completion))
        ELSE <<Save(160, resp.success, NoneVal)>>
                \o (IF step = "return_value" THEN <<Save(217, resp.success, NoneVal)>>
                    ELSE on_error(NoneVal))

\* line 118: range(self.max_retries) yields retry_index, one index too many
InRangeOneMore(retry_index, retries) == retry_index <= retries

\* line 118: range(self.max_retries) yields retry_index
InRange(retry_index, retries) == retry_index < retries

\* line 108
CountCallOnce(count) == 1
CountCall(count) == count + 1

\* The parts of the text of the UserError of line 228 and of line 239
ExhaustedMessage == {"input_text", "param_description", "last_error"}
BackupMessage    == {"input_text", "param_description"}

(***************************************************************************)
(* The retriever as a state machine: one retrieve call at a time, one step *)
(* per pass through the retry loop (each pass waits for the LLM)           *)
(***************************************************************************)
MaxRetries  == 2
MaxCalls    == 2
MaxAnnLen   == 4

AnnAlphabet == {"a", "{", "}", " "}
AnnTexts    == UNION {[1..n -> AnnAlphabet] : n \in 0..MaxAnnLen}
InputTexts  == {<<"a">>, <<" ", "a">>, <<"a", "a">>}
SuccessValues == {NoneVal, <<>>, <<"Y">>, <<"N">>, <<"X">>}

\* 'x' between n backticks on each side
Wrapped(n) == [i \in 1..(2 * n + 1) |-> IF i = n + 1 THEN "x" ELSE Backtick]

\* Completions in which extract_json finds no JSON object: bare, in triple
\* backticks, and in six backticks
NoJsonCompletions == {Wrapped(0), Wrapped(3), Wrapped(6)}

\* What the LLM can answer: an exception, the empty text, a text with no JSON
\* object in it, or a JSON object with a success flag and an annotated text (a
\* completion is kept as a text only where no JSON object is found in it)
Responses ==
    {[kind |-> "llm_error", completion |-> NoneVal, success |-> NoneVal,
      annotated_text |-> NoneVal]}
    \cup {[kind |-> "empty", completion |-> <<>>, success |-> NoneVal,
            annotated_text |-> NoneVal]}
    \cup {[kind |-> "no_json", completion |-> c, success |-> NoneVal,
            annotated_text |-> NoneVal] : c \in NoJsonCompletions}
    \cup {[kind |-> "json", completion |-> NoneVal, success |-> sv, annotated_text |-> t] :
            sv \in SuccessValues \ {<<"Y">>}, t \in {NoneVal, <<>>, <<"{", "a", "}">>}}
    \cup {[kind |-> "json", completion |-> NoneVal, success |-> <<"Y">>,
            annotated_text |-> t] : t \in AnnTexts \cup {NoneVal}}

NoAttempt == [index |-> -1]
NoOutcome == [kind |-> "none"]

CacheIdle ==
    /\ channel = NoneVal
    /\ file = <<>>
    /\ db = EmptyStore
    /\ preloaded = EmptyStore
    /\ prevOp = NoOp
    /\ lastOp = NoOp

InitRetriever ==
    /\ max_retries \in 0..MaxRetries
    /\ ctxTrial \in OuterTrials
    /\ call_count = 0
    /\ nCalls = 0
    /\ call = [pc |-> "idle"]
    /\ att = NoAttempt
    /\ outcome = NoOutcome
    /\ CacheIdle
    /\ WorkersIdle /\ DigestIdle /\ AggIdle /\ AppIdle /\ ScoringIdle

\* AnnotatingRetriever.init, with max_retries as set on the record: <<n>>, or <<>>
\* for None, which init replaces by 1
RetrieverInit(retries) ==
    /\ call.pc # "running"
    /\ max_retries' = IF retries = <<>> THEN 1 ELSE retries[1]
    /\ call_count' = 0
    /\ nCalls' = 0
    /\ call' = [pc |-> "idle"]
    /\ att' = NoAttempt
    /\ outcome' = NoOutcome
    /\ UNCHANGED ctxTrial
    /\ UNCHANGED cacheVars
    /\ UNCHANGED pureVars

\* retrieve up to the loop (lines 108-118); with no retry to run the loop is
\* skipped and line 239 raises
RetrieveStart(input_text, is_required) ==
    /\ call.pc # "running"
    /\ nCalls < MaxCalls
    /\ call_count' = CountCall(call_count)
    /\ nCalls' = nCalls + 1
    /\ att' = NoAttempt
    /\ IF InRange(0, max_retries)
       THEN /\ call' = [pc |-> "running", input_text |-> input_text,
                        is_required |-> is_required, retry_index |-> 0, llm_calls |-> 0]
            /\ outcome' = NoOutcome
       ELSE /\ call' = [pc |-> "done", input_text |-> input_text,
                        is_required |-> is_required, retry_index |-> 0, llm_calls |-> 0]
            /\ outcome' = [kind |-> "error", site |-> "backup", parts |-> BackupMessage,
                           cause |-> "none"]
    /\ UNCHANGED <<max_retries, ctxTrial>>
    /\ UNCHANGED cacheVars
    /\ UNCHANGED pureVars

\* One pass through the loop body (lines 119-236) and, after the last pass, the
\* statement that follows the loop (line 239)
RetrieveAttempt(resp) ==
    /\ call.pc = "running"
    /\ LET idx     == call.retry_index
           is_last == idx = max_retries - 1
           r       == Attempt(call.input_text, call.is_required, is_last, resp)
           goes_on == r.step = "next" /\ InRange(idx + 1, max_retries)
           trial   == RetryTrialId(ctxTrial, max_retries, idx)
           saves   == AttemptSaves(resp, r.step)
       IN  /\ att' = [index |-> idx, is_last |-> is_last,
                      trial |-> trial,
                      kind |-> resp.kind, success |-> resp.success,
                      completion |-> resp.completion, saves |-> saves,
                      empty |-> is_empty(resp.annotated_text),
                      mismatch |-> (is_not_empty(resp.annotated_text)
                                    /\ _deannotate(resp.annotated_text) # Strip(call.input_text)),
                      nested |-> (is_not_empty(resp.annotated_text)
                                  /\ HasNested(findall_braces(resp.annotated_text))),
                      extracted |-> IF goes_on \/ is_empty(resp.annotated_text) THEN NoneVal
                                    ELSE Join(<<" ">>, findall_braces(resp.annotated_text)),
                      step |-> r.step, cause |-> r.cause]
           /\ call' = [call EXCEPT !.pc = IF goes_on THEN "running" ELSE "done",
                                   !.retry_index = IF goes_on THEN idx + 1 ELSE idx,
                                   !.llm_calls = @ + 1]
           /\ outcome' =
                CASE r.step = "return_value" -> [kind |-> "value", value |-> r.value]
                  [] r.step = "return_none"  -> [kind |-> "absent"]
                  [] r.step = "raise" ->
                        [kind |-> "error", site |-> "exhausted", parts |-> ExhaustedMessage,
                         cause |-> r.cause]
                  [] r.step = "next" /\ ~goes_on ->
                        [kind |-> "error", site |-> "backup", parts |-> BackupMessage,
                         cause |-> "none"]
                  [] OTHER -> NoOutcome
    /\ UNCHANGED <<max_retries, call_count, ctxTrial, nCalls>>
    /\ UNCHANGED cacheVars
    /\ UNCHANGED pureVars

NextRetriever ==
    \/ \E retries \in {<<>>} \cup {<<n>> : n \in 0..MaxRetries} : RetrieverInit(retries)
    \/ \E t \in InputTexts, required \in BOOLEAN : RetrieveStart(t, required)
    \/ \E resp \in Responses : RetrieveAttempt(resp)

SpecRetriever == InitRetriever /\ [][NextRetriever]_vars

(***************************************************************************)
(* Claims about retrieve                                                   *)
(***************************************************************************)
Attempted  == att.index >= 0
SaidYes    == Attempted /\ att.kind = "json" /\ att.success = <<"Y">>
SaidNo     == Attempted /\ att.kind = "json" /\ att.success = <<"N">>
\* The call has gone on to the retry after the latest attempt
NextRetryRuns ==
    /\ outcome.kind = "none"
    /\ call.pc = "running"
    /\ call.retry_index = att.index + 1

\* C4: call_count equals the number of retrieve calls made since the last init,
\* whatever the outcome of each call and however many retries it ran.
C4_CallCount == call_count = nCalls

\* C4, its case: the second call since init has ended with an error after two
\* attempts, and both calls are counted.
C4_Witness ==
    /\ nCalls = 2
    /\ call_count = 2
    /\ call.pc = "done"
    /\ att.index = 1
    /\ outcome.kind = "error"

\* C5: a call with max_retries >= 1 that ends with an error ends with a message
\* holding the input text, the field description and the failure detail of the
\* last attempt, for every kind of attempt failure.
C5_ExhaustionMessage ==
    (call.pc = "done" /\ max_retries >= 1 /\ outcome.kind = "error")
        => (ExhaustedMessage \subseteq outcome.parts /\ outcome.cause # "none")

\* C6: when an attempt reports success N, an optional field makes retrieve return
\* absent at once, with no further LLM call; a required field makes the attempt
\* return nothing, and the next retry runs when there is one.
C6_NotFound ==
    SaidNo =>
        IF ~call.is_required
        THEN /\ outcome.kind = "absent"
             /\ call.pc = "done"
             /\ call.llm_calls = att.index + 1
        ELSE /\ outcome.kind \notin {"value", "absent"}
             /\ ~att.is_last => NextRetryRuns

\* C6, its case: the first of two retries reports N for an optional field and the
\* call has ended with absent after that one LLM call.
C6_Witness ==
    /\ SaidNo
    /\ ~call.is_required
    /\ max_retries = 2
    /\ att.index = 0
    /\ outcome.kind = "absent"
    /\ call.llm_calls = 1

\* C7 as stated: when the de-annotated text differs from the input text, an attempt
\* that is not the last returns nothing and the next retry runs, and the last
\* attempt returns the value extracted from the mismatching text.
C7_MismatchAsStated ==
    (SaidYes /\ att.mismatch) =>
        IF ~att.is_last
        THEN NextRetryRuns
        ELSE outcome.kind = "value" /\ outcome.value = att.extracted

\* C7 amended: as stated, except that on the last attempt a mismatching text with
\* a nested delimiter in a span ends the call with the nested-delimiter error; the
\* mismatch itself raises nothing.
C7_MismatchTolerated ==
    (SaidYes /\ att.mismatch) =>
        IF ~att.is_last
        THEN NextRetryRuns
        ELSE IF att.nested
             THEN outcome.kind = "error" /\ outcome.cause = "nested"
             ELSE outcome.kind = "value" /\ outcome.value = att.extracted

\* C7, its case: the last attempt's text does not de-annotate to the input, and
\* what its braces hold is returned.
C7_Witness ==
    /\ SaidYes
    /\ att.mismatch
    /\ att.is_last
    /\ outcome.kind = "value"
    /\ outcome.value # <<>>

\* C8: a failure during an attempt that is not the last (LLM exception,
\* unparseable JSON, annotation mismatch, nested delimiters, success Y with an
\* empty text) never ends the call: the attempt yields nothing and the next
\* retry runs.
C8_NonFinalFailure ==
    (/\ Attempted
     /\ ~att.is_last
     /\ \/ att.kind \in {"llm_error", "no_json"}
        \/ SaidYes /\ (att.empty \/ att.mismatch \/ att.nested))
        => NextRetryRuns

\* C9: success Y with an empty annotated text is a failure of the attempt: no
\* value and no absent is returned from it, and on the last retry the call ends
\* with an error.
C9_EmptyAnnotated ==
    (SaidYes /\ att.empty) =>
        /\ outcome.kind \notin {"value", "absent"}
        /\ att.is_last => (outcome.kind = "error" /\ outcome.cause = "empty_annotated")
        /\ ~att.is_last => NextRetryRuns

\* C9, its case: the last retry reports Y with an empty text and the call has
\* ended with an error.
C9_Witness ==
    /\ SaidYes
    /\ att.empty
    /\ att.is_last
    /\ call.pc = "done"
    /\ outcome.kind = "error"

\* C10: a span that holds a delimiter raises no error on a retry that is not the
\* last and ends the call with an error on the last retry.
C10_NestedDelimiters ==
    (SaidYes /\ att.nested) =>
        IF att.is_last THEN outcome.kind = "error" ELSE outcome.kind # "error"

\* C10, its case: a retry that is not the last found a span holding a delimiter,
\* and the call went on without an error.
C10_Witness ==
    /\ SaidYes
    /\ att.nested
    /\ ~att.mismatch
    /\ ~att.is_last
    /\ outcome.kind = "value"

\* C27: with max_retries >= 1 the raise that follows the loop is never reached:
\* every call ends through a return or a raise executed inside the loop.
C27_BackupUnreachable ==
    (call.pc = "done" /\ max_retries >= 1) =>
        ~(outcome.kind = "error" /\ outcome.site = "backup")

\* C28: a retrieve call asks for at most max_retries completions, one per retry
\* and in the order of the retry indexes 0, 1, ...: while the call runs, the next
\* retry index is the number of completions asked for so far and is below
\* max_retries, so the call ends after at most max_retries attempts; and it has
\* an outcome (a value, absent or an error) exactly when it has ended.
C28_BoundedRetries ==
    /\ call.pc \in {"running", "done"} =>
            /\ call.llm_calls <= max_retries
            /\ Attempted => att.index = call.llm_calls - 1
    /\ call.pc = "running" =>
            /\ call.retry_index = call.llm_calls
            /\ call.llm_calls < max_retries
            /\ outcome.kind = "none"
    /\ call.pc = "done" => outcome.kind \in {"value", "absent", "error"}

\* C28, its case: the first of two retries failed, the second completion was
\* asked for, and the call has ended with a value after max_retries completions.
C28_Witness ==
    /\ call.pc = "done"
    /\ max_retries = 2
    /\ call.llm_calls = 2
    /\ att.index = 1
    /\ outcome.kind = "value"

\* The attempt found no JSON object in its completion
NoJsonFound == Attempted /\ att.kind = "no_json"

\* What follows the failure of an attempt: an error on the last retry, the next
\* retry otherwise
FailureHandled(cause) ==
    IF att.is_last
    THEN call.pc = "done" /\ outcome.kind = "error" /\ outcome.cause = cause
    ELSE NextRetryRuns

\* C29 as stated: when no JSON object is found, the record is saved with success
\* N and a justification that holds the raw LLM response before the failure is
\* raised; the call then ends with an error on the last retry and goes on to the
\* next retry otherwise.
C29_NoJsonAsStated ==
    NoJsonFound =>
        /\ att.saves # <<>>
        /\ att.saves[1].success = <<"N">>
        /\ att.saves[1].response = att.completion
        /\ FailureHandled("no_json")

\* C29 amended: as stated, except that the justification holds the response as
\* it is parsed: a response that starts with six copies of its first character
\* and ends with six copies of its last one is quoted without its first three and
\* its last three characters.
C29_NoJsonPersisted ==
    NoJsonFound =>
        /\ att.saves # <<>>
        /\ att.saves[1].line = 166
        /\ att.saves[1].success = <<"N">>
        /\ att.saves[1].response =
              (IF IsWrapped(att.completion)
               THEN SubSeq(att.completion, 4, Len(att.completion) - 3)
               ELSE att.completion)
        /\ FailureHandled("no_json")

\* C29, its case: the first of two retries got a response in six backticks with
\* no JSON object in it; the record was saved with N and the response less three
\* characters at each end, and the second retry is about to run.
C29_Witness ==
    /\ NoJsonFound
    /\ ~att.is_last
    /\ att.completion = Wrapped(6)
    /\ att.saves = <<Save(166, <<"N">>, Wrapped(3))>>
    /\ NextRetryRuns

\* A completion with a symmetric wrapper of three characters: it starts with three
\* copies of its first character and ends with three copies of its last one
TripleWrapped(completion) ==
    /\ Len(completion) >= 6
    /\ \A i \in 1..3 : completion[i] = completion[1]
    /\ \A i \in (Len(completion) - 2)..Len(completion) :
            completion[i] = completion[Len(completion)]

\* C32: a completion with a symmetric wrapper of three characters is parsed
\* without its first three and last three characters, any other completion is
\* parsed unchanged.  The text handed to extract_json is the one the record of
\* line 166 quotes when no JSON object is found in it.
C32_WrapperStripping ==
    NoJsonFound =>
        att.saves[1].response =
            (IF TripleWrapped(att.completion)
             THEN SubSeq(att.completion, 4, Len(att.completion) - 3)
             ELSE att.completion)

\* C36: on no retry, final or not, does retrieve return a text that holds an
\* opening or a closing brace.
C36_ReturnedBraceFree ==
    outcome.kind = "value" =>
        ~Contains(outcome.value, "{") /\ ~Contains(outcome.value, "}")

\* C30: every attempt that retrieve runs saves its record, the one that carries
\* the attempt's trial id, at least once, failed attempts included; so a call
\* that ran k attempts has saved the records of k retry indexes.
C30_EveryAttemptSaved ==
    Attempted => att.saves # <<>>

(***************************************************************************)
(* Several workers calling retrieve on one AnnotatingRetriever.  Line 108, *)
(* self.call_count += 1, reads the field, adds one and writes the field    *)
(* back; no lock is held, so other workers can run between the read and    *)
(* the write.                                                              *)
(***************************************************************************)
MaxWorkers == 3

Workers == 1..MaxWorkers

\* The retriever has served nCalls sequential calls since init; the workers are
\* about to call retrieve
InitWorkers ==
    /\ nCalls \in 0..MaxCalls
    /\ call_count = nCalls
    /\ max_retries = 1
    /\ ctxTrial = NoneVal
    /\ call = [pc |-> "idle"]
    /\ att = NoAttempt
    /\ outcome = NoOutcome
    /\ workers = [w \in Workers |-> [pc |-> "ready", read |-> 0]]
    /\ CacheIdle
    /\ DigestIdle /\ AggIdle /\ AppIdle /\ ScoringIdle

\* line 108, first half: the worker enters retrieve and reads self.call_count
WorkerRead(w) ==
    /\ workers[w].pc = "ready"
    /\ workers' = [workers EXCEPT ![w] = [pc |-> "read", read |-> call_count]]
    /\ nCalls' = nCalls + 1
    /\ UNCHANGED <<call_count, max_retries, ctxTrial, call, att, outcome, dg, agg, app, scoring>>
    /\ UNCHANGED cacheVars

\* line 108, second half: the worker writes the value it read, plus one
WorkerWrite(w) ==
    /\ workers[w].pc = "read"
    /\ call_count' = CountCall(workers[w].read)
    /\ workers' = [workers EXCEPT ![w].pc = "counted"]
    /\ UNCHANGED <<nCalls, max_retries, ctxTrial, call, att, outcome, dg, agg, app, scoring>>
    /\ UNCHANGED cacheVars

\* lines 110-243: the rest of the call, which does not assign call_count
WorkerReturn(w) ==
    /\ workers[w].pc = "counted"
    /\ workers' = [workers EXCEPT ![w].pc = "done"]
    /\ UNCHANGED <<call_count, nCalls, max_retries, ctxTrial, call, att, outcome, dg, agg, app, scoring>>
    /\ UNCHANGED cacheVars

NextWorkers ==
    \/ \E w \in Workers : WorkerRead(w)
    \/ \E w \in Workers : WorkerWrite(w)
    \/ \E w \in Workers : WorkerReturn(w)

SpecWorkers == InitWorkers /\ [][NextWorkers]_vars

AllWorkersDone == \A w \in Workers : workers[w].pc = "done"

\* C11: when the retrieve calls of all workers have ended, call_count has grown by
\* the number of calls (it equals the number of calls made since init, no update
\* is lost), and calls_remaining is MAX_CALLS less every call made.
C11_NoLostUpdate ==
    AllWorkersDone =>
        /\ call_count = nCalls
        /\ calls_remaining(call_count) = MAX_CALLS - nCalls

(***************************************************************************)
(* StringUtil.digest, Completion.get_key and CompletionCache.get applied   *)
(* to chosen inputs                                                        *)
(***************************************************************************)
MaxSlack == 1

\* n times the character ch
Rep(ch, n) == [i \in 1..n |-> ch]

\* Completion.get_key called on a record
record_key(rec) == get_key(rec.llm, rec.query, rec.trial)

ShortTexts ==
    {<<>>, <<"q">>, <<"Q">>, <<"q", " ", "r">>, <<"q", "\n", "r">>, <<"q", "\t", "\n", "r">>,
     <<"q", ";">>, <<"q", "\\", "r">>}

\* Texts about as long as the maximal length and as the window of digest
LongLens ==
    ((DigestMaxLen - MaxSlack)..(DigestMaxLen + MaxSlack))
        \cup ((DigestWindow - MaxSlack)..(DigestWindow + MaxSlack))
LongTails == {<<>>, <<" ", "b">>, <<"\n", "b">>, <<";">>}
LongTexts == {Rep("a", n) \o t : n \in LongLens, t \in LongTails}

DigestTexts == ShortTexts \cup LongTexts

\* The same text as another client or operating system can send it
Variants(text) ==
    {text,
     <<" ">> \o text,
     text \o <<"\n">>,
     Replace(text, <<"\n">>, <<"\r", "\n">>),
     Replace(text, <<"\n">>, <<"\r">>)}

TextParams == {<<>>, <<<<"L">>>>, <<NoneVal, <<"L">>>>, <<<<"L">>, <<"m", ";">>>>}
HashParams == {<<>>, <<<<"h">>>>}

\* Two records of the same query and llm, written at different times with
\* different completions
RecordOf(text, n) ==
    IF n = 1 THEN CompletionRecord(<<"L">>, text, <<"c">>, NoneVal, <<"1">>)
             ELSE CompletionRecord(<<"L">>, text, <<"d">>, NoneVal, <<"7">>)

InitDigest ==
    /\ dg \in [pc : {"chosen"}, op : {"none"}, results : {<<>>},
               text : DigestTexts, other : DigestTexts \cup UNION {Variants(t) : t \in DigestTexts},
               text_params : TextParams, hash_params : HashParams]
    /\ dg.other \in Variants(dg.text)
    /\ CacheIdle
    /\ RetrIdle
    /\ WorkersIdle /\ AggIdle /\ AppIdle /\ ScoringIdle

CanCall(op) == dg.op \in {"none", op} /\ Len(dg.results) < 2

Called(op, result) ==
    /\ dg' = [dg EXCEPT !.pc = "called", !.op = op, !.results = Append(@, result)]
    /\ UNCHANGED cacheVars
    /\ UNCHANGED retrVars
    /\ UNCHANGED <<workers, agg, app, scoring>>

\* StringUtil.digest(text, text_params=..., hash_params=...)
DigestCall ==
    /\ CanCall("digest")
    /\ LET r == digest(dg.text, dg.text_params, dg.hash_params)
       IN  Called("digest", [raised |-> r.raised, value |-> r.value,
                             short |-> Shortened(dg.text),
                             is_truncated |-> IsTruncated(dg.text)])

\* Completion.get_key of a record holding the text as its query
RecordKeyCall ==
    /\ CanCall("record_key")
    /\ Called("record_key", record_key(RecordOf(dg.text, Len(dg.results) + 1)))

\* CompletionCache.get, first for the text and then for its variant, on a cache
\* that holds a completion for the text
QueryGetCall ==
    /\ CanCall("get")
    /\ LET store == save_one(EmptyStore, RecordOf(dg.text, 1))
           query == IF dg.results = <<>> THEN dg.text ELSE dg.other
       IN  Called("get", get(store, <<"L">>, query, NoneVal))

NextDigest ==
    \/ DigestCall
    \/ RecordKeyCall
    \/ QueryGetCall

SpecDigest == InitDigest /\ [][NextDigest]_vars

\* Leading and trailing whitespace removed, every line ending written as "\n"
Canonical(text) ==
    Strip(Replace(Replace(text, <<"\r", "\n">>, <<"\n">>), <<"\r">>, <<"\n">>))

DigestCalled    == dg.op = "digest" /\ Len(dg.results) >= 1
DigestCalledTwice == dg.op = "digest" /\ Len(dg.results) = 2
GetCalledTwice  == dg.op = "get" /\ Len(dg.results) = 2

\* C13: two queries that differ only in leading or trailing whitespace or in the
\* line ending used get the same cache key from get, so that a completion stored
\* for one is found for the other.
C13_EquivalentQueries ==
    (/\ GetCalledTwice
     /\ Canonical(dg.text) = Canonical(dg.other)
     /\ dg.results[1].raised = ""
     /\ dg.results[2].raised = "")
        => /\ dg.results[1].key = dg.results[2].key
           /\ dg.results[1].result = dg.results[2].result

\* C15: a single-line text of at most 80 characters is its own shortened form and
\* is not marked truncated; the shortened form of any other text has at most 80
\* characters and no newline.
C15_Truncation ==
    DigestCalled =>
        \A i \in 1..Len(dg.results) :
            IF ~Contains(dg.text, "\n") /\ Len(dg.text) <= DigestMaxLen
            THEN /\ dg.results[i].short = dg.text
                 /\ ~dg.results[i].is_truncated
            ELSE /\ Len(dg.results[i].short) <= DigestMaxLen
                 /\ ~Contains(dg.results[i].short, "\n")
                 /\ dg.results[i].is_truncated

\* C15, its case: a text with a newline, longer than the window, whose shortened
\* form has exactly the maximal length.
C15_Witness ==
    /\ DigestCalled
    /\ Contains(dg.text, "\n")
    /\ Len(dg.text) > DigestWindow
    /\ Len(dg.results[1].short) = DigestMaxLen
    /\ dg.results[1].is_truncated

\* C16: a string returned by digest holds neither a backslash nor a semicolon;
\* when one would be there, from the shortened text or from a visible param,
\* digest raises UserError instead.
C16_NoDisallowedDelimiter ==
    DigestCalled =>
        \A i \in 1..Len(dg.results) :
            IF dg.results[i].raised = ""
            THEN ~Contains(dg.results[i].value, "\\") /\ ~Contains(dg.results[i].value, ";")
            ELSE dg.results[i].raised = "UserError: A digest contains disallowed delimiters"

\* C16, its case: the text holds no delimiter, a visible param holds a semicolon,
\* and digest has raised.
C16_Witness ==
    /\ DigestCalled
    /\ dg.text # <<>>
    /\ ~Contains(dg.text, "\\")
    /\ ~Contains(dg.text, ";")
    /\ \E i \in 1..Len(dg.text_params) : Contains(dg.text_params[i], ";")
    /\ dg.results[1].raised # ""

\* C17: digest called with an empty text raises; it returns no digest for it.
C17_EmptyTextError ==
    (DigestCalled /\ dg.text = <<>>) =>
        \A i \in 1..Len(dg.results) : dg.results[i].raised # ""

(***************************************************************************)
(* shared_utils: try_str_to_float and manage_results.  A result map is a   *)
(* function from the fields it holds to their values; the DataFrame built  *)
(* from the list has one row per map and one column per field held by some *)
(* map.                                                                    *)
(***************************************************************************)
\* AGREEMENT_THRESHOLD, in hundredths
AGREEMENT_THRESHOLD == 20

IsDigit(c) == c \in {"0", "1", "2", "3", "4", "5", "6", "7", "8", "9"}

AllDigits(s) == \A i \in 1..Len(s) : IsDigit(s[i])

RECURSIVE StripLeadingZeros(_)
StripLeadingZeros(s) == IF s # <<>> /\ Head(s) = "0" THEN StripLeadingZeros(Tail(s)) ELSE s

RECURSIVE StripTrailingZeros(_)
StripTrailingZeros(s) ==
    IF s # <<>> /\ s[Len(s)] = "0" THEN StripTrailingZeros(SubSeq(s, 1, Len(s) - 1)) ELSE s

\* The sign and the rest of a numeric literal, surrounding whitespace removed
IsNegative(x) == Strip(x) # <<>> /\ Head(Strip(x)) = "-"
Unsigned(x) ==
    IF Strip(x) # <<>> /\ Head(Strip(x)) \in {"-", "+"} THEN Tail(Strip(x)) ELSE Strip(x)

\* int(x) for a string: the decimal digits of the value, or ValueError
parse_int(x) ==
    LET body == Unsigned(x)
    IN  IF body # <<>> /\ AllDigits(body)
        THEN Returned([negative |-> IsNegative(x),
                       digits |-> StripLeadingZeros(body), fraction |-> <<>>])
        ELSE Raised("ValueError")

\* float(x) for a string in fixed-point notation: the digits of the value before
\* and after the point, or ValueError
parse_float(x) ==
    LET body  == Unsigned(x)
        dots  == {i \in 1..Len(body) : body[i] = "."}
        point == IF dots = {} THEN Len(body) + 1 ELSE CHOOSE i \in dots : TRUE
        whole == SubSeq(body, 1, point - 1)
        frac  == SubSeq(body, point + 1, Len(body))
    IN  IF Cardinality(dots) <= 1 /\ AllDigits(whole) /\ AllDigits(frac)
           /\ whole \o frac # <<>>
        THEN Returned([negative |-> IsNegative(x),
                       digits |-> StripLeadingZeros(whole),
                       fraction |-> StripTrailingZeros(frac)])
        ELSE Raised("ValueError")

\* str(n) for an int
str_int(n) ==
    IF n.digits = <<>> THEN <<"0">>
    ELSE (IF n.negative THEN <<"-">> ELSE <<>>) \o n.digits

\* str(v) for a float
str_float(v) ==
    (IF v.negative THEN <<"-">> ELSE <<>>)
        \o (IF v.digits = <<>> THEN <<"0">> ELSE v.digits)
        \o <<".">>
        \o (IF v.fraction = <<>> THEN <<"0">> ELSE v.fraction)

\* try_str_to_float, line 12, for a value that is None: int(None) raises
\* TypeError, which neither except clause (ValueError) catches
RaisesTypeError(x) == x = NoneVal

\* try_str_to_float for a string: int(x) succeeds for an integer literal only
try_str_to_float(x) ==
    IF parse_int(x).raised = ""
    THEN str_int(parse_int(x).value)
    ELSE IF parse_float(x).raised = ""
         THEN str_float(parse_float(x).value)
         ELSE x

\* ord(c) for the characters of the values
Ord(c) ==
    CASE c = " " -> 32 [] c = "+" -> 43 [] c = "-" -> 45 [] c = "." -> 46
      [] c = "0" -> 48 [] c = "1" -> 49 [] c = "2" -> 50 [] c = "3" -> 51
      [] c = "4" -> 52 [] c = "5" -> 53 [] c = "6" -> 54 [] c = "7" -> 55
      [] c = "8" -> 56 [] c = "9" -> 57 [] c = "a" -> 97 [] c = "b" -> 98
      [] OTHER -> 127

\* a < b for two strings
RECURSIVE StrLess(_, _)
StrLess(a, b) ==
    IF b = <<>> THEN FALSE
    ELSE IF a = <<>> THEN TRUE
    ELSE IF Head(a) = Head(b) THEN StrLess(Tail(a), Tail(b))
    ELSE Ord(Head(a)) < Ord(Head(b))

\* lines 28-30: every value of every map is converted in place
ConvertInPlace(results_list) ==
    [i \in 1..Len(results_list) |->
        [k \in DOMAIN results_list[i] |-> try_str_to_float(results_list[i][k])]]

\* line 41: the agreement of count rows out of n is below the threshold
BelowOrAtThreshold(count, n) == count * 100 <= AGREEMENT_THRESHOLD * n
BelowThreshold(count, n) == count * 100 < AGREEMENT_THRESHOLD * n

Columns(rows) == UNION {DOMAIN rows[i] : i \in 1..Len(rows)}

ColumnValues(rows, k) == {rows[i][k] : i \in {j \in 1..Len(rows) : k \in DOMAIN rows[j]}}

\* line 40: sum(df[key] == val)
CountEqual(rows, k, v) ==
    Cardinality({i \in 1..Len(rows) : k \in DOMAIN rows[i] /\ rows[i][k] = v})

\* The most frequent value of a column that comes first in the list
ModeFirstSeen(rows, k) ==
    LET most == {v \in ColumnValues(rows, k) :
                    \A u \in ColumnValues(rows, k) :
                        CountEqual(rows, k, u) <= CountEqual(rows, k, v)}
        first == CHOOSE i \in 1..Len(rows) :
                    /\ k \in DOMAIN rows[i] /\ rows[i][k] \in most
                    /\ \A j \in 1..(i - 1) : ~(k \in DOMAIN rows[j] /\ rows[j][k] \in most)
    IN  rows[first][k]

\* line 36: df.mode().iloc[0], the least of the most frequent values of a column
Mode(rows, k) ==
    LET most == {v \in ColumnValues(rows, k) :
                    \A u \in ColumnValues(rows, k) :
                        CountEqual(rows, k, u) <= CountEqual(rows, k, v)}
    IN  CHOOSE v \in most : \A u \in most : u = v \/ StrLess(v, u)

\* The number of maps that hold some field
RowsHoldingAField(rows) == Cardinality({i \in 1..Len(rows) : DOMAIN rows[i] # {}})

\* line 41: len(df), one row per map of the list
FrameLen(rows) == Len(rows)

\* The maps that hold a None value
MapsWithNone(results_list) ==
    {i \in 1..Len(results_list) :
        \E k \in DOMAIN results_list[i] : RaisesTypeError(results_list[i][k])}

\* lines 28-30 when a value is None: the maps before the first map that holds a
\* None are converted, the conversion of that map raises, the rest is not reached
\* (the maps of the inputs hold one field, so no field of the failing map is
\* converted before the None)
ConvertedUpTo(results_list, failing) ==
    [i \in 1..Len(results_list) |->
        IF i < failing
        THEN [k \in DOMAIN results_list[i] |-> try_str_to_float(results_list[i][k])]
        ELSE results_list[i]]

\* manage_results: the list as the call leaves it, and the map returned or the
\* exception raised.  A list whose maps hold no field gives a frame without
\* columns, of which df.mode() has no row: .iloc[0] raises IndexError (line 36).
manage_results(results_list) ==
    IF MapsWithNone(results_list) # {}
    THEN [raised |-> "TypeError",
          results_list |->
              ConvertedUpTo(results_list,
                            CHOOSE i \in MapsWithNone(results_list) :
                                \A j \in MapsWithNone(results_list) : i <= j),
          json_output |-> NoneVal]
    ELSE IF Columns(results_list) = {}
    THEN [raised |-> "IndexError", results_list |-> results_list, json_output |-> NoneVal]
    ELSE
    LET rows == ConvertInPlace(results_list)
        kept == {k \in Columns(rows) :
                    ~BelowThreshold(CountEqual(rows, k, Mode(rows, k)), FrameLen(rows))}
    IN  [raised |-> "",
         results_list |-> rows,
         json_output |-> [k \in kept |-> Mode(rows, k)]]

MaxTrials == 6

Fields    == {"f"}
AggValues == {<<"1", "0">>, <<"1", "0", ".", "0">>, <<"0", ".", "2", "0">>, <<"a">>}
ResultMaps  == UNION {[D -> AggValues] : D \in SUBSET Fields}
ResultLists == UNION {[1..n -> ResultMaps] : n \in 1..MaxTrials}

\* A list of result maps in which some map holds a field
InitAggregate ==
    /\ agg \in [pc : {"chosen"}, input : ResultLists]
    /\ Columns(agg.input) # {}
    /\ CacheIdle
    /\ RetrIdle
    /\ WorkersIdle /\ DigestIdle /\ AppIdle /\ ScoringIdle

\* res = manage_results(results_list)
Aggregate ==
    /\ agg.pc = "chosen"
    /\ LET r == manage_results(agg.input)
       IN  agg' = [pc |-> "done", input |-> agg.input,
                   results_list |-> r.results_list, json_output |-> r.json_output,
                   first_output |-> r.json_output]
    /\ UNCHANGED cacheVars
    /\ UNCHANGED retrVars
    /\ UNCHANGED <<workers, dg, app, scoring>>

\* manage_results called once more on the same list
AggregateAgain ==
    /\ agg.pc = "done"
    /\ LET r == manage_results(agg.results_list)
       IN  agg' = [agg EXCEPT !.pc = "again", !.results_list = r.results_list,
                              !.json_output = r.json_output]
    /\ UNCHANGED cacheVars
    /\ UNCHANGED retrVars
    /\ UNCHANGED <<workers, dg, app, scoring>>

NextAggregate ==
    \/ Aggregate
    \/ AggregateAgain

SpecAggregate == InitAggregate /\ [][NextAggregate]_vars

Aggregated == agg.pc = "done"

\* The number of maps of the list that hold value v for field k
Votes(rows, k, v) == Cardinality({i \in 1..Len(rows) : k \in DOMAIN rows[i] /\ rows[i][k] = v})

\* The largest number of votes any value of field k has
ModalVotes(rows, k) ==
    CHOOSE c \in 0..Len(rows) :
        /\ \E v \in ColumnValues(rows, k) : Votes(rows, k, v) = c
        /\ \A v \in ColumnValues(rows, k) : Votes(rows, k, v) <= c

\* C18: with N the number of result maps, a field is in the output exactly when
\* (votes of its modal value) / N is at least 20 percent, and is then mapped to a
\* value that has that number of votes.
C18_ConsensusThreshold ==
    Aggregated =>
        \A k \in Columns(agg.results_list) :
            LET n == Len(agg.results_list)
                c == ModalVotes(agg.results_list, k)
            IN  /\ (k \in DOMAIN agg.json_output) <=> (5 * c >= n)
                /\ k \in DOMAIN agg.json_output =>
                      Votes(agg.results_list, k, agg.json_output[k]) = c

\* C18, its case: six result maps, one of them holding the field, and the field
\* is not in the output.
C18_Witness ==
    /\ Aggregated
    /\ Len(agg.input) = 6
    /\ ModalVotes(agg.results_list, "f") = 1
    /\ "f" \notin DOMAIN agg.json_output

AggregatedTwice == agg.pc = "again"

\* The values of field k that have the largest number of votes
MostVoted(rows, k) ==
    {v \in ColumnValues(rows, k) : Votes(rows, k, v) = ModalVotes(rows, k)}

\* C21: a second call on the same list returns the output of the first, and when
\* several values tie as most frequent the value reported is fixed by the list:
\* it is the first of the tied values in the order of strings.
C21_Deterministic ==
    AggregatedTwice =>
        /\ agg.json_output = agg.first_output
        /\ \A k \in DOMAIN agg.json_output :
              /\ agg.json_output[k] \in MostVoted(agg.results_list, k)
              /\ \A v \in MostVoted(agg.results_list, k) :
                    v = agg.json_output[k] \/ StrLess(agg.json_output[k], v)

\* C21, its case: two values tie as most frequent, the one that comes later in
\* the order of strings is first in the list, and both calls report the other.
C21_Witness ==
    /\ AggregatedTwice
    /\ Cardinality(MostVoted(agg.results_list, "f")) >= 2
    /\ "f" \in DOMAIN agg.input[1]
    /\ "f" \in DOMAIN agg.json_output
    /\ agg.results_list[1]["f"] \in MostVoted(agg.results_list, "f")
    /\ agg.json_output["f"] # agg.results_list[1]["f"]
    /\ agg.first_output = agg.json_output

\* C22: a map without the field is no vote for any value of the field and counts
\* in N: when m of the N maps hold the field, all with value v, the field is kept
\* exactly when m / N is at least 20 percent, and is then mapped to v.
C22_MissingCounts ==
    Aggregated =>
        \A k \in Columns(agg.results_list) :
            \A v \in ColumnValues(agg.results_list, k) :
                ColumnValues(agg.results_list, k) = {v} =>
                    LET m == Votes(agg.results_list, k, v)
                        n == Len(agg.input)
                    IN  IF 5 * m >= n
                        THEN k \in DOMAIN agg.json_output /\ agg.json_output[k] = v
                        ELSE k \notin DOMAIN agg.json_output

\* C22, its case: one of six maps holds the field, the other five count in N, and
\* the field is dropped; with five maps it would be kept.
C22_Witness ==
    /\ Aggregated
    /\ Len(agg.input) = 6
    /\ Cardinality({i \in 1..6 : "f" \in DOMAIN agg.input[i]}) = 1
    /\ "f" \in DOMAIN agg.input[1]
    /\ agg.json_output = <<>>

\* Two strings that denote the same number
SameNumber(x, y) ==
    /\ parse_float(x).raised = ""
    /\ parse_float(y).raised = ""
    /\ parse_float(x).value = parse_float(y).value

\* C19: two numeric-looking strings that denote the same number are converted to
\* the same string before the vote.
C19_NumericCanonical ==
    Aggregated =>
        \A i, j \in 1..Len(agg.input) :
            \A k \in DOMAIN agg.input[i] \cap DOMAIN agg.input[j] :
                SameNumber(agg.input[i][k], agg.input[j][k])
                    => agg.results_list[i][k] = agg.results_list[j][k]

\* C20: manage_results leaves its argument unchanged: after the call every map of
\* the list holds the values it held before.
C20_InputUnchanged ==
    Aggregated => agg.results_list = agg.input

\* The list with its first two maps exchanged
Swapped(results_list) ==
    [i \in 1..Len(results_list) |->
        IF i = 1 /\ Len(results_list) >= 2 THEN results_list[2]
        ELSE IF i = 2 THEN results_list[1]
        ELSE results_list[i]]

\* The list with its first map moved to the end
Rotated(results_list) ==
    [i \in 1..Len(results_list) |-> results_list[(i % Len(results_list)) + 1]]

\* C40: the output of manage_results does not depend on the order of the trials,
\* also when several values tie as most frequent: exchanging the first two maps
\* and moving the first map to the end (every permutation is a composition of
\* these two, and every list is among the inputs) leave the fields and their
\* values as they are.
C40_OrderIndependent ==
    Aggregated =>
        /\ manage_results(Swapped(agg.input)).json_output = agg.json_output
        /\ manage_results(Rotated(agg.input)).json_output = agg.json_output

C40_Witness ==
    /\ Aggregated
    /\ Len(agg.input) >= 3
    /\ Cardinality(MostVoted(agg.results_list, "f")) >= 2
    /\ "f" \in DOMAIN agg.json_output
    /\ "f" \in DOMAIN agg.input[1]
    /\ agg.results_list[1]["f"] \in MostVoted(agg.results_list, "f")
    /\ "f" \in DOMAIN agg.input[2]
    /\ agg.results_list[2]["f"] \in MostVoted(agg.results_list, "f")
    /\ agg.results_list[1]["f"] # agg.results_list[2]["f"]
    /\ manage_results(Swapped(agg.input)).json_output = agg.json_output

(***************************************************************************)
(* Functions applied to one chosen input: _deannotate, get_trade_ids_list,  *)
(* EntryKey.init and RegressionGuard.verify                                *)
(***************************************************************************)
MaxTextLen == 2
MaxPairs   == 1

\* Characters of the original texts
TextAlphabet == {"a", "b", " ", Backtick}

OriginalTexts == UNION {[1..n -> TextAlphabet] : n \in 0..MaxTextLen}

\* The texts obtained from S by enclosing at most n non-overlapping spans, empty
\* spans included, in a pair of braces
RECURSIVE Annotations(_, _)
Annotations(S, n) ==
    IF n = 0 THEN {S}
    ELSE {S} \cup UNION { UNION {
             { SubSeq(S, 1, i - 1) \o <<"{">> \o SubSeq(S, i, j) \o <<"}">> \o R :
                   R \in Annotations(SubSeq(S, j + 1, Len(S)), n - 1) } :
             j \in (i - 1)..Len(S) } : i \in 1..(Len(S) + 1) }

DeannotateInputs ==
    UNION { {[S |-> S, T |-> T] : T \in Annotations(S, MaxPairs)} : S \in OriginalTexts }

\* str.split(sep) for a one-character separator
RECURSIVE Split(_, _)
Split(s, sep) ==
    LET i == IndexFrom(s, sep, 1)
    IN  IF i = 0 THEN <<s>>
        ELSE <<SubSeq(s, 1, i - 1)>> \o Split(SubSeq(s, i + 1, Len(s)), sep)

\* The integer a parsed literal stands for
DigitValue(c) == CHOOSE d \in 0..9 : Digit(d) = c

RECURSIVE DigitsValue(_)
DigitsValue(ds) ==
    IF ds = <<>> THEN 0
    ELSE 10 * DigitsValue(SubSeq(ds, 1, Len(ds) - 1)) + DigitValue(ds[Len(ds)])

IntValue(n) == IF n.negative THEN 0 - DigitsValue(n.digits) ELSE DigitsValue(n.digits)

\* range(start, end): the last id of a range left out
RangeExclusive(start, end) == start..(end - 1)

\* range(start, end + 1)
RangeInclusive(start, end) == start..end

Max(a, b) == IF a >= b THEN a ELSE b

\* get_trade_ids_list, the body of the loop: the ids one part adds to result
PartIds(part) ==
    LET p == Strip(part)
    IN  IF Contains(p, "-")
        THEN LET range_parts == Split(p, "-")
             IN  IF \E i \in 1..Len(range_parts) : parse_int(range_parts[i]).raised # ""
                 THEN Raised("ValueError")
                 ELSE IF Len(range_parts) # 2 THEN Raised("ValueError")
                 ELSE LET x == IntValue(parse_int(range_parts[1]).value)
                          y == IntValue(parse_int(range_parts[2]).value)
                      IN  Returned(RangeInclusive(Min(x, y), Max(x, y)))
        ELSE IF parse_int(p).raised # "" THEN Raised("ValueError")
        ELSE Returned({IntValue(parse_int(p).value)})

\* sorted(list(result))
SortedList(ids) ==
    [i \in 1..Cardinality(ids) |->
        CHOOSE n \in ids : Cardinality({m \in ids : m < n}) = i - 1]

\* HackathonSolution.get_trade_ids_list
get_trade_ids_list(trade_ids) ==
    IF trade_ids = NoneVal \/ trade_ids = <<>> THEN Returned(<<>>)
    ELSE LET parts == Split(trade_ids, ",")
             ids   == [i \in 1..Len(parts) |-> PartIds(parts[i])]
         IN  IF \E i \in 1..Len(parts) : ids[i].raised # "" THEN Raised("ValueError")
             ELSE Returned(SortedList(UNION {ids[i].value : i \in 1..Len(parts)}))

MaxId    == 3
MaxItems == 2

\* The ids of the inputs: 8, 9, 10, ... so that one-digit and two-digit ids meet
TradeIds == {n + 7 : n \in 1..MaxId}

\* str(n) for n >= 0
RECURSIVE IntText(_)
IntText(n) == IF n < 10 THEN <<Digit(n)>> ELSE IntText(n \div 10) \o <<Digit(n % 10)>>

\* An item is a single id (lo = hi, written as one id or as 'a-a') or a range
TradeItems ==
    {[lo |-> a, hi |-> b, dash |-> d, spaced |-> sp] :
        a \in TradeIds, b \in TradeIds, d \in BOOLEAN, sp \in BOOLEAN}

WellFormedItem(item) == item.lo <= item.hi /\ (item.lo < item.hi => item.dash)

\* The text of an item, with or without whitespace around its ids and itself
ItemText(item) ==
    LET pad == IF item.spaced THEN <<" ">> ELSE <<>>
    IN  IF item.dash
        THEN pad \o IntText(item.lo) \o pad \o <<"-">> \o pad \o IntText(item.hi) \o pad
        ELSE pad \o IntText(item.lo) \o pad

ItemLists ==
    UNION {[1..n -> {item \in TradeItems : WellFormedItem(item)}] : n \in 0..MaxItems}

\* Texts that are not lists of items
MalformedTradeIds == {<<" ">>, <<"8", ",">>, <<"-", "8">>, <<"8", "-", "9", "-", "9">>, <<"a">>}

TradeIdsText(items) == Join(<<",">>, [i \in 1..Len(items) |-> ItemText(items[i])])

TradeIdsInputs ==
    {[text |-> TradeIdsText(items), items |-> items, well_formed |-> TRUE] :
        items \in ItemLists}
    \cup {[text |-> t, items |-> <<>>, well_formed |-> FALSE] : t \in MalformedTradeIds}

\* The integers the items of an input cover
Covered(items) == UNION {items[i].lo..items[i].hi : i \in 1..Len(items)}

\* EntryKey.init; is_key is what is_key(self) returns
EntryKeyInit(entry_id, is_key) ==
    IF is_key /\ Len(Split(entry_id, ":")) # 2 THEN Raised("UserError")
    ELSE Returned(NoneVal)

MaxTokens == 5

EntryIdDelimiters == {"\\", ":"}

\* 'a', 'a\a', 'a\a\a', ... and the same with colons
EntryIdOf(tokens, delimiter) == Join(<<delimiter>>, [i \in 1..tokens |-> <<"a">>])

EntryKeyInputs ==
    {[entry_id |-> EntryIdOf(n, d), tokens |-> n, delimiter |-> d, is_key |-> k] :
        n \in 1..MaxTokens, d \in EntryIdDelimiters, k \in BOOLEAN}

\* RegressionGuard.verify, line 284: the lines are compared in pairs, up to the
\* end of the shorter file
LinesMatch(received_lines, expected_lines) ==
    \A i \in 1..Min(Len(received_lines), Len(expected_lines)) :
        received_lines[i] = expected_lines[i]

\* The state of a guard and of its files after verify, with what verify did
Verified(guard, raised, value) ==
    [raised |-> raised, value |-> value,
     received |-> guard.received, expected |-> guard.expected, diff |-> guard.diff,
     verified |-> guard.verified, has_exception_text |-> guard.has_exception_text]

\* RegressionGuard.verify of a guard that delegates to no other guard; a file is
\* the sequence of its lines, or None when it does not exist
verify(guard, silent) ==
    IF guard.verified
    THEN IF ~silent THEN Verified(guard, "RuntimeError", NoneVal)
         ELSE Verified(guard, "", ~guard.has_exception_text)
    ELSE IF guard.received = NoneVal THEN Verified(guard, "", TRUE)
    ELSE IF guard.expected # NoneVal
    THEN IF LinesMatch(guard.received, guard.expected)
         THEN Verified([guard EXCEPT !.received = NoneVal, !.diff = FALSE], "", TRUE)
         ELSE LET failed == [guard EXCEPT !.diff = TRUE, !.has_exception_text = TRUE,
                                          !.verified = TRUE]
              IN  IF ~silent THEN Verified(failed, "RuntimeError", NoneVal)
                  ELSE Verified(failed, "", FALSE)
    ELSE Verified([guard EXCEPT !.expected = guard.received, !.received = NoneVal,
                                !.diff = FALSE, !.verified = TRUE], "", TRUE)

MaxLines == 2

GuardLines == {"a", "b"}

FileContents == UNION {[1..n -> GuardLines] : n \in 0..MaxLines}

\* A guard that has not verified yet, with the files found on disk
FreshGuards ==
    {[received |-> r, expected |-> e, diff |-> d, verified |-> FALSE,
      has_exception_text |-> FALSE] :
        r \in FileContents \cup {NoneVal}, e \in FileContents \cup {NoneVal},
        d \in BOOLEAN}

\* A guard as an earlier verify left it: verified with expected created, or failed
VerifiedGuards ==
    {[received |-> v.received, expected |-> v.expected, diff |-> v.diff,
      verified |-> v.verified, has_exception_text |-> v.has_exception_text] :
        v \in {w \in {verify(g, TRUE) : g \in FreshGuards} : w.verified}}

GuardInputs ==
    [guard : FreshGuards \cup VerifiedGuards, silent : BOOLEAN]

\* Lists of result maps in which a field may be present with the value None, as
\* _leg_entry_to_dict leaves it for a field it could not fill
ResultListsWithNone ==
    UNION {[1..n -> UNION {[D -> AggValues \cup {NoneVal}] : D \in SUBSET Fields}] :
              n \in 1..MaxItems}

\* The list with every None entry taken out of its map
WithoutNone(results_list) ==
    [i \in 1..Len(results_list) |->
        [k \in {f \in DOMAIN results_list[i] : results_list[i][f] # NoneVal} |->
            results_list[i][k]]]

\* retrieve, lines 121-130, then the key of the completion of a query asked
\* under the trial of one retry: format_query reads the trial of the context,
\* get_key digests the formatted query with the llm id
RetryKey(llm_id, query, ctx_trial, retries, retry_index) ==
    LET trial == RetryTrialId(ctx_trial, retries, retry_index)
    IN  get_key(llm_id, format_query(query, trial), trial)

\* Queries that hold no disallowed delimiter themselves
CleanQueries == {q \in Queries : \A d \in DisallowedDelimiters : ~Contains(q, d)}

RetryKeyInputs ==
    {a \in [llm_id : Channels, query : CleanQueries, ctx_trial : OuterTrials,
            retries : 1..MaxRetries, retry_index : 0..(MaxRetries - 1)] :
        InRange(a.retry_index, a.retries)}

InitFunctions ==
    /\ \/ app \in [pc : {"chosen"}, fn : {"_deannotate"}, arg : DeannotateInputs]
       \/ app \in [pc : {"chosen"}, fn : {"get_trade_ids_list"}, arg : TradeIdsInputs]
       \/ app \in [pc : {"chosen"}, fn : {"EntryKey.init"}, arg : EntryKeyInputs]
       \/ app \in [pc : {"chosen"}, fn : {"verify"}, arg : GuardInputs]
       \/ app \in [pc : {"chosen"}, fn : {"retry_key"}, arg : RetryKeyInputs]
       \/ app \in [pc : {"chosen"}, fn : {"manage_results"},
                    arg : [results_list : ResultListsWithNone]]
    /\ CacheIdle
    /\ RetrIdle
    /\ WorkersIdle /\ DigestIdle /\ AggIdle /\ ScoringIdle

Apply(fn, result) ==
    /\ app.pc = "chosen"
    /\ app.fn = fn
    /\ app' = [pc |-> "done", fn |-> fn, arg |-> app.arg, result |-> result]
    /\ UNCHANGED cacheVars
    /\ UNCHANGED retrVars
    /\ UNCHANGED <<workers, dg, agg, scoring>>

\* self._deannotate(annotated_text)
Deannotate == Apply("_deannotate", Returned(_deannotate(app.arg.T)))

\* solution.get_trade_ids_list()
GetTradeIdsList == Apply("get_trade_ids_list", get_trade_ids_list(app.arg.text))

\* EntryKey(entry_id=...).init()
EntryKeyInitCall ==
    Apply("EntryKey.init", EntryKeyInit(app.arg.entry_id, app.arg.is_key))

\* guard.verify(silent=...)
Verify == Apply("verify", verify(app.arg.guard, app.arg.silent))

\* manage_results(results_list)
ManageResults == Apply("manage_results", manage_results(app.arg.results_list))

\* The completion key of the query of one retry
RetryKeyCall ==
    Apply("retry_key",
          RetryKey(app.arg.llm_id, app.arg.query, app.arg.ctx_trial,
                   app.arg.retries, app.arg.retry_index))

NextFunctions ==
    \/ RetryKeyCall
    \/ Deannotate
    \/ GetTradeIdsList
    \/ EntryKeyInitCall
    \/ Verify
    \/ ManageResults

SpecFunctions == InitFunctions /\ [][NextFunctions]_vars

Applied(fn) == app.pc = "done" /\ app.fn = fn

\* C23: for every original text S and every text T obtained from S by inserting
\* pairs of braces at non-overlapping positions, _deannotate(T) is S exactly.
C23_RoundTrip ==
    Applied("_deannotate") => app.result.value = app.arg.S

\* C24: for trade_ids made of well-formed items (single ids and ranges 'a-b' with
\* a <= b, with or without whitespace, overlapping, in any order, or no item at
\* all) get_trade_ids_list returns the covered integers in ascending order,
\* each once.
C24_TradeIds ==
    (Applied("get_trade_ids_list") /\ app.arg.well_formed) =>
        /\ app.result.raised = ""
        /\ LET ids == app.result.value
           IN  /\ {ids[i] : i \in 1..Len(ids)} = Covered(app.arg.items)
               /\ \A i \in 1..(Len(ids) - 1) : ids[i] < ids[i + 1]

\* C24, its case: two overlapping ranges given out of order with whitespace, and a
\* two-digit id, give each covered id once in ascending order.
C24_Witness ==
    /\ Applied("get_trade_ids_list")
    /\ app.arg.well_formed
    /\ Len(app.arg.items) = 2
    /\ app.arg.items[1].lo = 9 /\ app.arg.items[1].hi = 10 /\ app.arg.items[1].spaced
    /\ app.arg.items[2].lo = 8 /\ app.arg.items[2].hi = 9
    /\ app.result.value = <<8, 9, 10>>

\* C25: EntryKey.init accepts an entry_id of three or of four backslash-delimited
\* tokens and raises UserError for one, two or five such tokens.
C25_EntryIdTokens ==
    (Applied("EntryKey.init") /\ app.arg.is_key /\ app.arg.delimiter = "\\") =>
        /\ app.arg.tokens \in {3, 4} => app.result.raised = ""
        /\ app.arg.tokens \in {1, 2, 5} => app.result.raised = "UserError"

\* verify has failed: it raised, or it returned False
VerifyFailed == app.result.raised = "RuntimeError" \/ app.result.value = FALSE

\* C26: the first verify of a guard whose expected and received files both exist
\* fails whenever the files differ, a strict prefix included, and succeeds only
\* when they are line-for-line identical.
C26_VerifyStrict ==
    (/\ Applied("verify")
     /\ ~app.arg.guard.verified
     /\ app.arg.guard.expected # NoneVal
     /\ app.arg.guard.received # NoneVal) =>
        (VerifyFailed <=> app.arg.guard.received # app.arg.guard.expected)

\* C35: for max_retries > 1 the key of a query formatted with the trial id of a
\* retry is always computed: the disallowed-delimiter error is never raised.
C35_RetryKeyWellFormed ==
    (Applied("retry_key") /\ app.arg.retries > 1) =>
        app.result.raised # "UserError: A digest contains disallowed delimiters"

\* C34: a field present with the value None does not make manage_results fail,
\* and the None entry is treated like a missing field: no vote, counted in N.
C34_NoneAccepted ==
    Applied("manage_results") =>
        /\ app.result.raised = ""
        /\ app.result.json_output =
               manage_results(WithoutNone(app.arg.results_list)).json_output

(***************************************************************************)
(* HackathonSolution.score_trial_output run by several workers on the one  *)
(* output of a (solution, trade_id, trial_id)                               *)
(***************************************************************************)
MaxScorers == 2

Scorers == 1..MaxScorers

\* The messages of lines 254, 265, 267 and 269, and a failure of score_output
SolutionCancelledError == "UserError: Scoring for the solution has been cancelled"
OutputCancelledError   == "UserError: Scoring for this output has been cancelled"
OutputCompletedError   == "UserError: Scoring for this output has been completed"
OutputRunningError     == "UserError: Scoring for this output is already running"
ScoreOutputError       == "score_output raised"

\* The fields of HackathonScoreItem (hackathon_score_item.py lines 25-46) and of
\* its base HackathonScoreItemKey (hackathon_score_item_key.py lines 24-38)
ScoreItemFields ==
    {"scoring", "input", "actual_output", "expected_output",
     "matched_fields", "mismatched_fields", "error_fields"}

\* The keyword arguments get_score_item passes to HackathonScoreItem, lines 416-427
ScoreItemArguments ==
    {"solution", "trade_group", "trade_id", "trial_id", "input", "actual_output",
     "expected_output", "matched_fields", "mismatched_fields", "error_fields"}

\* The constructor of the kw_only dataclass accepts its own fields only
ScoreItemRaises ==
    IF ScoreItemArguments \subseteq ScoreItemFields
    THEN ""
    ELSE "TypeError: HackathonScoreItem.__init__() got an unexpected keyword argument"

\* lines 264-269: the error the loaded status leads to, "" when none
StatusError(status) ==
    CASE status = "Cancelled" -> OutputCancelledError
      [] status = "Completed" -> OutputCompletedError
      [] status = "Running"   -> OutputRunningError
      [] OTHER                -> ""

\* _run_score has stored the solution with status "Running" (line 336) and the
\* output with status "Pending" (save_trial_output, line 242); the tasks are
\* submitted (submit_trial_output) and no worker has started. _run_score itself
\* stands before line 360, and no run_analyze is under way
InitScoring ==
    /\ scoring = [solution_status |-> "Running",
                  status |-> "Pending",
                  runs |-> 0,
                  run_score |-> "submitted",
                  analyze |-> "none",
                  analyze_raised |-> "",
                  w |-> [i \in Scorers |-> [pc |-> "submitted", loaded |-> NoneVal,
                                            raised |-> ""]]]
    /\ CacheIdle /\ RetrIdle
    /\ WorkersIdle /\ DigestIdle /\ AggIdle /\ AppIdle

ScoringStep(next) ==
    /\ scoring' = next
    /\ UNCHANGED cacheVars
    /\ UNCHANGED retrVars
    /\ UNCHANGED <<workers, dg, agg, app>>

\* run_cancel_scoring, lines 311-315
CancelScoring ==
    /\ scoring.solution_status # "Cancelled"
    /\ ScoringStep([scoring EXCEPT !.solution_status = "Cancelled"])

\* _run_score, lines 359-361: the status written after the last task is
\* submitted. The copy of the solution _run_score holds is saved whatever the
\* store holds by then, a "Cancelled" written by run_cancel_scoring included
SolutionCompleted ==
    /\ scoring.run_score = "submitted"
    /\ ScoringStep([scoring EXCEPT !.solution_status = "Completed",
                                   !.run_score = "done"])

\* The inputs get_inputs finds for the solution when run_analyze calls calculate
AnalyzedInputs == 0..1

\* run_analyze, lines 365-366: the solution is saved with status "Analyzing"
RunAnalyze ==
    /\ scoring.analyze = "none"
    /\ ScoringStep([scoring EXCEPT !.solution_status = "Analyzing",
                                   !.analyze = "calculating",
                                   !.analyze_raised = ""])

\* run_analyze, line 367: calculate. With an input, the first pass of its loop
\* raises in get_score_item (line 416) and run_analyze ends there; with none,
\* calculate_statistics finds the output in the store and calculate saves the
\* solution with status "Completed" (lines 489-490)
AnalyzeCalculate(inputs) ==
    /\ scoring.analyze = "calculating"
    /\ ScoringStep(IF inputs > 0 /\ ScoreItemRaises # ""
                   THEN [scoring EXCEPT !.analyze = "none",
                                        !.analyze_raised = ScoreItemRaises]
                   ELSE [scoring EXCEPT !.solution_status = "Completed",
                                        !.analyze = "calculated"])

\* run_analyze, lines 370-371: the solution is saved with status "Completed"
AnalyzeComplete ==
    /\ scoring.analyze = "calculated"
    /\ ScoringStep([scoring EXCEPT !.solution_status = "Completed",
                                   !.analyze = "none"])

\* score_trial_output, lines 248-254: the log message and the cancellation test
ScoreEnter(i) ==
    /\ scoring.w[i].pc = "submitted"
    /\ ScoringStep(IF scoring.solution_status = "Cancelled"
                   THEN [scoring EXCEPT !.w[i].pc = "done",
                                        !.w[i].raised = SolutionCancelledError]
                   ELSE [scoring EXCEPT !.w[i].pc = "entered"])

\* line 262: the worker loads its own copy of the output
ScoreLoad(i) ==
    /\ scoring.w[i].pc = "entered"
    /\ ScoringStep([scoring EXCEPT !.w[i].pc = "loaded",
                                   !.w[i].loaded = scoring.status])

\* lines 264-273: the test of the loaded status, then the save as "Running"
ScoreMark(i) ==
    /\ scoring.w[i].pc = "loaded"
    /\ LET error == StatusError(scoring.w[i].loaded)
       IN  ScoringStep(IF error # ""
                       THEN [scoring EXCEPT !.w[i].pc = "done", !.w[i].raised = error]
                       ELSE [scoring EXCEPT !.w[i].pc = "running",
                                            !.status = "Running",
                                            !.runs = @ + 1])

\* lines 276-280: score_output returns and the output is saved as "Completed"
ScoreComplete(i) ==
    /\ scoring.w[i].pc = "running"
    /\ ScoringStep([scoring EXCEPT !.w[i].pc = "done", !.status = "Completed"])

\* line 276: score_output raises; nothing catches it in score_trial_output
ScoreOutputRaises(i) ==
    /\ scoring.w[i].pc = "running"
    /\ ScoringStep([scoring EXCEPT !.w[i].pc = "done",
                                   !.w[i].raised = ScoreOutputError])

NextScoring ==
    \/ CancelScoring
    \/ SolutionCompleted
    \/ RunAnalyze
    \/ \E inputs \in AnalyzedInputs : AnalyzeCalculate(inputs)
    \/ AnalyzeComplete
    \/ \E i \in Scorers : ScoreEnter(i)
    \/ \E i \in Scorers : ScoreLoad(i)
    \/ \E i \in Scorers : ScoreMark(i)
    \/ \E i \in Scorers : ScoreComplete(i)
    \/ \E i \in Scorers : ScoreOutputRaises(i)

SpecScoring == InitScoring /\ [][NextScoring]_vars

\* No worker is inside score_trial_output, and one at least has finished a call
NoScorerInside ==
    /\ \A i \in Scorers : scoring.w[i].pc \in {"submitted", "done"}
    /\ \E i \in Scorers : scoring.w[i].pc = "done"

PassedCheck ==
    {i \in Scorers :
        \/ scoring.w[i].pc = "running"
        \/ scoring.w[i].pc = "done" /\ scoring.w[i].raised \in {"", ScoreOutputError}}

ERROR_KEYWORDS ==
    {<<"e", "r", "r", "o", "r">>,
     <<"e", "s", "c", "a", "l", "a", "t", "i", "o", "n">>,
     <<"?">>}

COMPARE_AS_NUMBER_FIELDS ==
    {"tenor_years", "pay_leg_notional", "pay_leg_freq_months",
     "pay_leg_float_spread_bp", "pay_leg_fixed_rate_pct", "rec_leg_notional",
     "rec_leg_freq_months", "rec_leg_float_spread_bp", "rec_leg_fixed_rate_pct"}

\* 'keyword in text'
HasSubstring(text, keyword) ==
    \E i \in 1..(Len(text) - Len(keyword) + 1) :
        SubSeq(text, i, i + Len(keyword) - 1) = keyword

\* The truth value of a field value: None and the empty string are false
Truthy(value) == value # NoneVal /\ value # <<>>

\* HackathonOutput.__slots__: entry_text and, of the seventeen fields compared,
\* one of each kind of comparison
OutputSlots == <<"entry_text", "effective_date", "tenor_years", "pay_leg_ccy">>

\* HackathonOutputKey.__slots__, as get_key fills them
OutputKeySlots == {"solution", "trade_group", "trade_id", "trial_id"}

\* '"date" in field_name' for the slots above
DateFields == {"effective_date"}

NotCompared(f) == f \in OutputKeySlots \/ f \in {"entry_text", "status"}

IsCompared(f) == ~NotCompared(f)

\* lines 387-389: the fields the loop visits, in the order of the slots
ComparedFields == SelectSeq(OutputSlots, IsCompared)

ComparedFieldSet == {ComparedFields[i] : i \in 1..Len(ComparedFields)}

\* _compare_as_dates and _compare_as_numbers: equal after strip(), otherwise
\* what the comparison of the two generated entries gives (entries_equal; a
\* failure to generate an entry is caught and gives False)
CompareAsEntries(source_text, target_text, entries_equal) ==
    IF Strip(source_text) = Strip(target_text) THEN TRUE ELSE entries_equal

\* The fields for which the two entries are generated and compared
EntriesCompared(actual_output, expected_output) ==
    {f \in ComparedFieldSet :
        /\ f \in DateFields \cup COMPARE_AS_NUMBER_FIELDS
        /\ Truthy(actual_output[f])
        /\ Truthy(expected_output[f])
        /\ ~\E k \in ERROR_KEYWORDS : HasSubstring(LowerStr(actual_output[f]), k)
        /\ Strip(actual_output[f]) # Strip(expected_output[f])}

\* lines 399-408
ComparisonResult(field_name, actual_field_value, expected_field_value, entries_equal) ==
    IF Truthy(actual_field_value) /\ Truthy(expected_field_value)
    THEN IF field_name \in DateFields \cup COMPARE_AS_NUMBER_FIELDS
         THEN CompareAsEntries(actual_field_value, expected_field_value, entries_equal)
         ELSE expected_field_value = actual_field_value
    ELSE expected_field_value = actual_field_value

\* line 395
HasErrorKeyword(actual_field_value) ==
    /\ Truthy(actual_field_value)
    /\ \E k \in ERROR_KEYWORDS : HasSubstring(LowerStr(actual_field_value), k)

\* lines 391-413: the lists the loop body appends the field to
AppendedTo(field_name, actual_field_value, expected_field_value, entries_equal) ==
    IF HasErrorKeyword(actual_field_value)
    THEN {"error_fields"}
    ELSE {IF ComparisonResult(field_name, actual_field_value, expected_field_value,
                              entries_equal)
          THEN "matched_fields" ELSE "mismatched_fields"}

\* get_score_item: the three lists the loop has built when line 416 is reached,
\* and what the construction of the score item at lines 416-427 raises; the
\* item is returned only when raised is "". equal_entries holds the fields
\* whose generated entries compare equal
get_score_item(actual_output, expected_output, equal_entries) ==
    LET Lists(f) == AppendedTo(f, actual_output[f], expected_output[f],
                               f \in equal_entries)
        Matched(f)    == "matched_fields" \in Lists(f)
        Mismatched(f) == "mismatched_fields" \in Lists(f)
        Error(f)      == "error_fields" \in Lists(f)
    IN  [raised            |-> ScoreItemRaises,
         matched_fields    |-> SelectSeq(ComparedFields, Matched),
         mismatched_fields |-> SelectSeq(ComparedFields, Mismatched),
         error_fields      |-> SelectSeq(ComparedFields, Error)]

MaxScored == 2

ActualValues   == {NoneVal, <<"1">>, <<"1", " ">>, <<"2">>, <<"E", "R", "R", "O", "R">>}
ExpectedValues == {NoneVal, <<"1">>}

NoItem == [raised |-> "", matched_fields |-> <<>>, mismatched_fields |-> <<>>,
           error_fields |-> <<>>]

\* calculate, lines 433-440: the inputs of the solution and its trial count are
\* read, the sums start at 0. status is the status the solution is stored with
\* ("Analyzing" when run_analyze makes the call), outputs_stored tells whether
\* the store holds any HackathonOutput; an input has its expected output there.
\* The score is counted in halves: it is a sum of terms 1 and 0.5, which floats
\* add exactly
InitCalculate ==
    /\ app \in {a \in [pc : {"calculating"}, fn : {"calculate"},
                      inputs : 0..MaxScored, trial_count : 0..MaxScored,
                      outputs_stored : BOOLEAN,
                      status : {"Running", "Cancelled", "Analyzing", "Completed"},
                      scored : {0}, score_halves : {0}, max_score : {0},
                      matched : {0}, mismatched : {0}, errors : {0},
                      item : {NoItem}, raised : {""}, score_set : {FALSE},
                      score_pct_set : {FALSE}, statistics : {0}] :
                  /\ a.inputs * a.trial_count <= MaxScored
                  /\ a.inputs > 0 => a.outputs_stored}
    /\ CacheIdle
    /\ RetrIdle
    /\ WorkersIdle /\ DigestIdle /\ AggIdle /\ ScoringIdle

\* What get_score_item gives for the outputs the store can hold
ScoreItems ==
    UNION {{get_score_item(actual_output, expected_output, equal_entries) :
               equal_entries \in SUBSET EntriesCompared(actual_output, expected_output)} :
           actual_output \in [ComparedFieldSet -> ActualValues],
           expected_output \in [ComparedFieldSet -> ExpectedValues]}

\* lines 444-479: one pass of the inner loop, for one input and one trial;
\* score_item is what get_score_item gives for the two outputs loaded. When
\* get_score_item raises, calculate ends with the exception: nothing is saved
\* and nothing is added to the sums
CalculateScore(score_item) ==
    /\ app.pc = "calculating"
    /\ app.fn = "calculate"
    /\ app.scored < app.inputs * app.trial_count
    /\ app' = IF score_item.raised # ""
              THEN [app EXCEPT !.pc = "done",
                               !.item = score_item,
                               !.raised = score_item.raised]
              ELSE [app EXCEPT
                      !.scored = @ + 1,
                      !.item = score_item,
                      !.score_halves = @ + 2 * Len(score_item.matched_fields)
                                         + Len(score_item.error_fields),
                      !.max_score = @ + Len(score_item.matched_fields)
                                      + Len(score_item.mismatched_fields)
                                      + Len(score_item.error_fields),
                      !.matched = @ + Len(score_item.matched_fields),
                      !.mismatched = @ + Len(score_item.mismatched_fields),
                      !.errors = @ + Len(score_item.error_fields)]
    /\ UNCHANGED cacheVars
    /\ UNCHANGED retrVars
    /\ UNCHANGED <<workers, dg, agg, scoring>>

\* lines 481-490: the sums are set on the solution; calculate_statistics reads
\* the first of all outputs (line 616) and raises IndexError when the store has
\* none, otherwise saves the statistics of each input; then the solution is
\* saved with status "Completed"
CalculateFinish ==
    /\ app.pc = "calculating"
    /\ app.fn = "calculate"
    /\ app.scored = app.inputs * app.trial_count
    /\ app' = IF ~app.outputs_stored
              THEN [app EXCEPT !.pc = "done",
                               !.score_set = TRUE,
                               !.score_pct_set = (app.max_score > 0),
                               !.raised = "IndexError: list index out of range"]
              ELSE [app EXCEPT !.pc = "done",
                               !.score_set = TRUE,
                               !.score_pct_set = (app.max_score > 0),
                               !.statistics = app.inputs,
                               !.status = "Completed"]
    /\ UNCHANGED cacheVars
    /\ UNCHANGED retrVars
    /\ UNCHANGED <<workers, dg, agg, scoring>>

NextCalculate ==
    \/ \E score_item \in ScoreItems : CalculateScore(score_item)
    \/ CalculateFinish

SpecCalculate == InitCalculate /\ [][NextCalculate]_vars

Occurrences(list, f) == Cardinality({i \in 1..Len(list) : list[i] = f})

\* A pass of the loop of calculate has called get_score_item
ScoreItemRequested ==
    /\ app.fn = "calculate"
    /\ app.inputs * app.trial_count > 0
    /\ app.pc = "done" \/ app.scored > 0

\* C39: get_score_item returns a score item in which every compared field is
\* in exactly one of matched_fields, mismatched_fields and error_fields, and the
\* sums of calculate satisfy score = matched + 0.5 * error, max_score = matched
\* + mismatched + error and 0 <= score <= max_score.
C39_ScoreWellFormed ==
    (app.pc \in {"calculating", "done"} /\ ScoreItemRequested) =>
        /\ app.item.raised = ""
        /\ app.raised = ""
        /\ \A f \in ComparedFieldSet :
              Occurrences(app.item.matched_fields, f)
                + Occurrences(app.item.mismatched_fields, f)
                + Occurrences(app.item.error_fields, f) = 1
        /\ \A l \in {"matched_fields", "mismatched_fields", "error_fields"} :
              \A i \in 1..Len(app.item[l]) : app.item[l][i] \in ComparedFieldSet
        /\ app.score_halves = 2 * app.matched + app.errors
        /\ app.max_score = app.matched + app.mismatched + app.errors
        /\ 0 <= app.score_halves
        /\ app.score_halves <= 2 * app.max_score

(***************************************************************************)
(* The call budget: a retriever serving one retrieve call after another,   *)
(* each call taken pass by pass from line 108 to its return or raise       *)
(***************************************************************************)
MaxOverBudget == 2

\* Answers of the LLM to one retry: an exception, field not found, a good
\* annotation, an annotation that does not match the input
BudgetResponses ==
    {r \in Responses :
        \/ r.kind = "llm_error"
        \/ r.kind = "json" /\ r.success = <<"N">> /\ r.annotated_text = NoneVal
        \/ r.kind = "json" /\ r.success = <<"Y">>
              /\ r.annotated_text \in {<<"{", "a", "}">>, <<"{", "a", "}", "a">>}}

InitBudget ==
    /\ max_retries \in 1..MaxRetries
    /\ ctxTrial = NoneVal
    /\ call_count = 0
    /\ nCalls = 0
    /\ call = [pc |-> "idle"]
    /\ att = NoAttempt
    /\ outcome = NoOutcome
    /\ CacheIdle
    /\ WorkersIdle /\ DigestIdle /\ AggIdle /\ AppIdle /\ ScoringIdle

\* retrieve up to the loop (lines 108-118), called with any budget: nothing
\* reads calls_remaining.  budget is calls_remaining as the caller saw it before
\* the call.
BudgetStart(is_required) ==
    /\ call.pc # "running"
    /\ nCalls < MAX_CALLS + MaxOverBudget
    /\ call_count' = CountCall(call_count)
    /\ nCalls' = nCalls + 1
    /\ att' = NoAttempt
    /\ IF InRange(0, max_retries)
       THEN /\ call' = [pc |-> "running", input_text |-> <<"a">>,
                        is_required |-> is_required, retry_index |-> 0, llm_calls |-> 0,
                        budget |-> calls_remaining(call_count)]
            /\ outcome' = NoOutcome
       ELSE /\ call' = [pc |-> "done", input_text |-> <<"a">>,
                        is_required |-> is_required, retry_index |-> 0, llm_calls |-> 0,
                        budget |-> calls_remaining(call_count)]
            /\ outcome' = [kind |-> "error", site |-> "backup", parts |-> BackupMessage,
                           cause |-> "none"]
    /\ UNCHANGED <<max_retries, ctxTrial>>
    /\ UNCHANGED cacheVars
    /\ UNCHANGED pureVars

\* init() called by another user of the retriever while the call waits for the
\* LLM: max_retries is set already, so only the counter is reset (lines 86-93)
InitDuringCall ==
    /\ call.pc = "running"
    /\ call_count' = 0
    /\ nCalls' = 0
    /\ UNCHANGED <<max_retries, ctxTrial, call, att, outcome>>
    /\ UNCHANGED cacheVars
    /\ UNCHANGED pureVars

NextBudget ==
    \/ \E retries \in {<<>>} \cup {<<n>> : n \in 0..MaxRetries} : RetrieverInit(retries)
    \/ \E required \in BOOLEAN : BudgetStart(required)
    \/ \E resp \in BudgetResponses : RetrieveAttempt(resp)
    \/ InitDuringCall

SpecBudget == InitBudget /\ [][NextBudget]_vars

\* C31: the retriever does not enforce the budget.  calls_remaining is MAX_CALLS
\* less the calls made since init and is zero or negative from the 50th call on;
\* and a call made with any budget, exhausted or not, runs the extraction: it
\* asks the LLM whenever there is a retry to run.
C31_BudgetNotEnforced ==
    /\ calls_remaining(call_count) = MAX_CALLS - call_count
    /\ call_count = nCalls
    /\ nCalls >= MAX_CALLS => calls_remaining(call_count) <= 0
    /\ (call.pc = "done" /\ max_retries >= 1) =>
            /\ call.llm_calls >= 1
            /\ call.retry_index = call.llm_calls - 1
            /\ outcome.kind \in {"value", "absent", "error"}
            /\ outcome.kind = "error" => outcome.site \in {"exhausted", "backup"}

\* C31, its case: the 52nd call since init was made with a negative budget and
\* has returned an extracted value.
C31_Witness ==
    /\ nCalls = MAX_CALLS + 2
    /\ call.pc = "done"
    /\ call.budget = -1
    /\ calls_remaining(call_count) = -2
    /\ outcome.kind = "value"
    /\ outcome.value = <<"a">>

====
